---- MODULE Spec2Model ----
(***************************************************************************)
(* A model of the background service worker (the dispatcher), the          *)
(* offscreen document (the worker) and the messages between them.          *)
(*                                                                         *)
(* Strings are sequences of code units (positive integers).  Sizes are     *)
(* scaled: the 32 MiB message ceiling is MAX_MESSAGE_SIZE code units.      *)
(* A job is named by the index of the request that submitted it; the real  *)
(* messages carry no such name, so the fields job/of/by/sent below are     *)
(* ghost fields: the handlers never read them, only the properties do.     *)
(***************************************************************************)
EXTENDS Integers, Sequences, FiniteSets, TLC

\* ------------------------------------------------------------------ bounds
NJobs == 2
NTransfers == 1
MaxChunkMsgs == 2
MaxTotalChunks == 2
MaxWorkers == 2
MaxPulls == 2
MaxPullIndex == 3

\* --------------------------------------------------------- program constants
\* The ceiling of 32 * 1024 * 1024 characters, in units of 16 MiB.
MAX_MESSAGE_SIZE == 2
MAX_POLL_ATTEMPTS == 50

Jobs == 1..NJobs
TransferIds == 1..NTransfers

\* 0 stands for JavaScript's null wherever a job or a port is named.
Null == 0
NoEntry == [absent |-> TRUE]
NoResponse == [type |-> "none"]
Hole == <<-1>>
NoCodec == [stage |-> "none"]

VARIABLES
  creatingOffscreen,      \* "null" | "pending" | "created" | "rejected": the createDocument
                          \* promise held; "created" once the host has built its document
  offscreenPort,          \* Null or the worker instance connected
  pendingTranscode,       \* Null or the job whose {resolve, reject} the slot holds
  offscreenReady,
  offscreenReadyResolve,  \* Null or the job whose readiness promise the resolver settles
  chunkStorage,           \* transferId -> NoEntry | [chunks, totalChunks, received]
  resultStorage,          \* resultId -> NoEntry | stored result
  chunkedResult,          \* NoEntry | [mimeType, totalChunks, chunks, received]
  pc,                     \* per request: where its handler is suspended
  kind,                   \* per request: the message type it carried
  transferId,             \* per request: the transferId it carried (EXTRACT_ZIP_PROCESS)
  zipBase64,              \* per request: the handler's local zipBase64
  attempts,               \* per request: the poll loop's local counter
  response,               \* per request: what sendResponse was called with
  jobTimers,              \* armed deadline timers, in arming order
  readyTimers,            \* armed readiness timers
  docExists,              \* the host has an offscreen document
  workerGen,              \* worker instances created so far
  toWorker,               \* port messages dispatcher -> worker, in order
  fromWorker,             \* port messages worker -> dispatcher, in order
  workerJobs,             \* jobs the worker is running
  chunkedInput,           \* worker: NoEntry | [totalChunks, chunks, received, job]
  arrived,                \* ghost: the EXTRACT_ZIP_CHUNK messages handled, in order
  pulled,                 \* ghost: the GET_RESULT_CHUNK requests handled and their responses
  clientZip,              \* content script: the zipBase64 of the archive it uploads
  codec,                  \* a byte array on its way through uint8ToBase64 and atob
  tabMessages,            \* the chrome.tabs.sendMessage calls made, in order
  uploadFailed            \* content script: a chunk response carried an error

vars == <<creatingOffscreen, offscreenPort, pendingTranscode, offscreenReady,
          offscreenReadyResolve, chunkStorage, resultStorage, chunkedResult,
          pc, kind, transferId, zipBase64, attempts, response, jobTimers, readyTimers,
          docExists, workerGen, toWorker, fromWorker, workerJobs, chunkedInput,
          arrived, pulled, clientZip, codec, tabMessages, uploadFailed>>

\* ------------------------------------------------------------------ strings
RECURSIVE Join(_)
\* Array.prototype.join(''): holes and undefined slots contribute nothing.
Join(chunks) ==
  IF chunks = <<>> THEN <<>>
  ELSE (IF Head(chunks) = Hole THEN <<>> ELSE Head(chunks)) \o Join(Tail(chunks))

Min(a, b) == IF a < b THEN a ELSE b

\* Math.ceil(n / d)
CeilDiv(n, d) == (n + d - 1) \div d

\* String.prototype.substring(start, end) for 0 <= start, end
Substring(s, start, end) ==
  LET e == Min(end, Len(s))
      b == Min(start, e)
  IN SubSeq(s, b + 1, e)

\* A staging that appends every chunk in the order of receipt.
ArraySet_Append(chunks, chunkIndex, chunk) == Append(chunks, chunk)

\* chunks[chunkIndex] = chunk on a JavaScript array: the array grows to fit.
ArraySet(chunks, chunkIndex, chunk) ==
  LET n == IF chunkIndex + 1 > Len(chunks) THEN chunkIndex + 1 ELSE Len(chunks)
  IN [i \in 1..n |-> IF i = chunkIndex + 1 THEN chunk
                     ELSE IF i <= Len(chunks) THEN chunks[i] ELSE Hole]

\* A cut that loses the last code unit of every chunk.
ChunkOf_Short(data, size, i) ==
  Substring(data, i * size, Min(i * size + size, Len(data)) - 1)

\* data.substring(i * size, Math.min(i * size + size, data.length)): the i-th
\* chunk (from 0) of data cut at multiples of size.
ChunkOf(data, size, i) == Substring(data, i * size, Min(i * size + size, Len(data)))

RECURSIVE Flatten(_)
\* The texts of a list, each after a separator (code unit 2).
Flatten(texts) ==
  IF texts = <<>> THEN <<>> ELSE <<2>> \o Head(texts) \o Flatten(Tail(texts))

\* JSON.stringify of a multi-video result: an opening brace (code unit 1), the
\* videos, a closing brace (code unit 3).  Video texts use code units above 9.
JSONstringify(videos) == <<1>> \o Flatten(videos) \o <<3>>

RECURSIVE Items(_, _)
\* The texts between separators of a JSON body; cur is the text being read.
Items(text, cur) ==
  IF text = <<>> THEN <<cur>>
  ELSE IF Head(text) = 2 THEN <<cur>> \o Items(Tail(text), <<>>)
  ELSE Items(Tail(text), Append(cur, Head(text)))

\* The texts JSON.parse accepts; on any other it throws.
IsJSON(text) == Len(text) >= 2 /\ text[1] = 1 /\ text[Len(text)] = 3

\* JSON.parse of such a string: the videos.
JSONparse(text) == Tail(Items(SubSeq(text, 2, Len(text) - 1), <<>>))

\* new Array(totalChunks)
NewArray(totalChunks) == [i \in 1..totalChunks |-> Hole]

\* The piece of an upload a client cuts at chunkIndex, n code units long.
Piece(chunkIndex, n) == [i \in 1..n |-> 10 * (chunkIndex + 1) + i]

\* ------------------------------------------------- handler state as a value
\* The variables a handler's continuation may assign, as one record, so that
\* the code that runs in one turn of the event loop composes as functions.
Cur ==
  [pc |-> pc, kind |-> kind, transferId |-> transferId, zipBase64 |-> zipBase64,
   attempts |-> attempts, response |-> response,
   pendingTranscode |-> pendingTranscode, jobTimers |-> jobTimers,
   offscreenReadyResolve |-> offscreenReadyResolve, readyTimers |-> readyTimers,
   toWorker |-> toWorker, resultStorage |-> resultStorage]

Commit(s) ==
  /\ pc' = s.pc
  /\ kind' = s.kind
  /\ transferId' = s.transferId
  /\ zipBase64' = s.zipBase64
  /\ attempts' = s.attempts
  /\ response' = s.response
  /\ pendingTranscode' = s.pendingTranscode
  /\ jobTimers' = s.jobTimers
  /\ offscreenReadyResolve' = s.offscreenReadyResolve
  /\ readyTimers' = s.readyTimers
  /\ toWorker' = s.toWorker
  /\ resultStorage' = s.resultStorage

\* .catch(error => sendResponse({ error: error.message })): by is a ghost field,
\* the job whose timer or whose worker run produced the error (Null otherwise).
ErrorResponse(msg, by) == [type |-> "error", error |-> msg, by |-> by]

\* A handler that answers an unknown identifier as if it had succeeded.
NotFoundError_Success(what) == [type |-> "result", error |-> what, by |-> Null]

\* throw new Error('Transfer not found: ' + transferId), 'Result not found: ' + resultId
NotFoundError(what) == ErrorResponse(what, Null)

\* sendResponse, after which the handler is over.
Respond(s, j, r) == [s EXCEPT !.pc[j] = "done", !.response[j] = r]

\* ------------------------------------------------------------- job dispatch
\* setTimeout delays of the deadline timers, in minutes.
Deadline(k) == IF k = "EXTRACT_ZIP_PROCESS" THEN 10 ELSE 5

TimeoutMessage(k) ==
  IF k = "TRANSCODE_VIDEO" THEN "Transcoding timed out" ELSE "ZIP extraction timed out"

\* The EXTRACT_ZIP_DATA_CHUNK messages of handleExtractZipProcess's loop.
ForwardChunks(j, zip, totalChunks) ==
  [i \in 1..totalChunks |->
     [type |-> "EXTRACT_ZIP_DATA_CHUNK", job |-> j, chunkIndex |-> i - 1,
      chunk |-> ChunkOf(zip, MAX_MESSAGE_SIZE, i - 1)]]

\* A dispatcher that forwards every archive whole.
JobMessages_Whole(j, k, zip) ==
  CASE k = "TRANSCODE_VIDEO" -> <<[type |-> "TRANSCODE", job |-> j]>>
    [] k = "EXTRACT_ZIP" -> <<[type |-> "EXTRACT_ZIP", job |-> j]>>
    [] OTHER -> <<[type |-> "EXTRACT_ZIP_DATA", job |-> j, zipBase64 |-> zip]>>

\* What each handler posts to the worker for its job.
JobMessages(j, k, zip) ==
  CASE k = "TRANSCODE_VIDEO" -> <<[type |-> "TRANSCODE", job |-> j]>>
    [] k = "EXTRACT_ZIP" -> <<[type |-> "EXTRACT_ZIP", job |-> j]>>
    [] k = "EXTRACT_ZIP_DATA" ->
         <<[type |-> "EXTRACT_ZIP_DATA", job |-> j, zipBase64 |-> zip]>>
    [] k = "EXTRACT_ZIP_PROCESS" ->
         IF Len(zip) > MAX_MESSAGE_SIZE
         THEN LET totalChunks == CeilDiv(Len(zip), MAX_MESSAGE_SIZE)
              IN <<[type |-> "EXTRACT_ZIP_DATA_START", job |-> j,
                    totalChunks |-> totalChunks, totalLength |-> Len(zip)]>>
                 \o ForwardChunks(j, zip, totalChunks)
                 \o <<[type |-> "EXTRACT_ZIP_DATA_END", job |-> j]>>
         ELSE <<[type |-> "EXTRACT_ZIP_DATA", job |-> j, zipBase64 |-> zip]>>

\* A dispatcher that keeps the record of the job already pending.
SetPending_FirstWins(s, j) ==
  IF s.pendingTranscode = Null THEN [s EXCEPT !.pendingTranscode = j] ELSE s

\* pendingTranscode = { resolve, reject }: the slot now names job j.
SetPending(s, j) == [s EXCEPT !.pendingTranscode = j]

\* The handler from "new Promise(...)" to "await resultPromise": the slot is
\* overwritten, the deadline timer armed, the job posted.  With no port,
\* offscreenPort.postMessage throws a TypeError after both assignments.
Dispatch(s, j) ==
  LET armed == [SetPending(s, j) EXCEPT !.jobTimers = Append(s.jobTimers, j)]
  IN IF offscreenPort = Null
     THEN Respond(armed, j,
                  ErrorResponse("Cannot read properties of null", Null))
     ELSE [armed EXCEPT
             !.pc[j] = "awaitResult",
             !.toWorker = s.toWorker \o JobMessages(j, s.kind[j], s.zipBase64[j])]

\* ensureOffscreenDocument from line 44 on: the handle check and the readiness wait.
AfterPoll(s, j) ==
  IF offscreenPort = Null
  THEN Respond(s, j, ErrorResponse("Offscreen document did not connect", Null))
  ELSE IF ~offscreenReady
  THEN [s EXCEPT !.pc[j] = "waitReady",
                 !.offscreenReadyResolve = j,
                 !.readyTimers = s.readyTimers \cup {j}]
  ELSE Dispatch(s, j)

\* A loop that polls once more than the limit.
PollAgain_OneMore(port, n) == port = Null /\ n <= MAX_POLL_ATTEMPTS

\* while (!offscreenPort && attempts < 50)
PollAgain(port, n) == port = Null /\ n < MAX_POLL_ATTEMPTS

\* ensureOffscreenDocument from line 38 on: entering the poll loop.
EnterPoll(s, j) ==
  IF PollAgain(offscreenPort, 0)
  THEN [s EXCEPT !.pc[j] = "poll", !.attempts[j] = 0]
  ELSE AfterPoll(s, j)

\* ensureOffscreenDocument up to its first await.
ensureOffscreenDocument(s, j) ==
  IF offscreenPort # Null THEN Dispatch(s, j)
  ELSE [s EXCEPT !.pc[j] = "getContexts"]

\* ------------------------------------------------- settling a result promise
\* A result is { base64, mimeType } or { videos, multiple: true }; job is a
\* ghost field.  The fields a shape lacks are empty here (undefined, falsy).
SingleResult(j, base64, mimeType) ==
  [job |-> j, multiple |-> FALSE, base64 |-> base64, mimeType |-> mimeType,
   videos |-> <<>>]

MultipleResult(j, videos) ==
  [job |-> j, multiple |-> TRUE, base64 |-> <<>>, mimeType |-> "", videos |-> videos]

RECURSIVE SumLen(_)
\* result.videos.reduce((sum, v) => sum + v.base64.length, 0)
SumLen(videos) ==
  IF videos = <<>> THEN 0 ELSE Len(Head(videos)) + SumLen(Tail(videos))

\* let totalSize = 0; if (result.base64) {...} else if (result.multiple && ...) {...}
TotalSize(result) ==
  IF result.base64 # <<>> THEN Len(result.base64)
  ELSE IF result.multiple THEN SumLen(result.videos)
  ELSE 0

\* Date.now() when job j's result is stored: jobs settle at distinct instants.
DateNow(j) == j

DataResultId(j) == [src |-> "time", id |-> DateNow(j)]
ProcessResultId(t) == [src |-> "transfer", id |-> t]
ResultIds == {DataResultId(j) : j \in Jobs} \cup {ProcessResultId(t) : t \in TransferIds}

\* What resultStorage holds: the result itself, or { json, isMultipleVideos }.
StoredSingle(result) ==
  [isMultipleVideos |-> FALSE, json |-> <<>>, base64 |-> result.base64,
   mimeType |-> result.mimeType, job |-> result.job]

StoredMultiple(result) ==
  [isMultipleVideos |-> TRUE, json |-> JSONstringify(result.videos), base64 |-> <<>>,
   mimeType |-> "", job |-> result.job]

\* { chunked: true, resultId, totalChunks, totalLength, mimeType | isMultipleVideos }
\* for a stored result whose text to pull is data.
ChunkedDescriptor(resultId, stored) ==
  LET data == IF stored.isMultipleVideos THEN stored.json ELSE stored.base64
  IN [type |-> "chunked", resultId |-> resultId,
      totalChunks |-> CeilDiv(Len(data), MAX_MESSAGE_SIZE),
      totalLength |-> Len(data), mimeType |-> stored.mimeType,
      isMultipleVideos |-> stored.isMultipleVideos, of |-> stored.job]

ResultResponse(result) == [type |-> "result", result |-> result, of |-> result.job]

\* resultStorage.set(resultId, stored); return { chunked: true, ... }
StoreAndDescribe(s, j, resultId, stored) ==
  Respond([s EXCEPT !.resultStorage[resultId] = stored], j,
          ChunkedDescriptor(resultId, stored))

\* What the handler of job j does once its resultPromise is fulfilled:
\* handleTranscode and handleExtractZip return the result; handleExtractZipData
\* looks at result.base64 only; handleExtractZipProcess at the total size.
ReturnResult(s, j, result) ==
  CASE s.kind[j] = "EXTRACT_ZIP_DATA" ->
         IF Len(result.base64) > MAX_MESSAGE_SIZE
         THEN StoreAndDescribe(s, j, DataResultId(j), StoredSingle(result))
         ELSE Respond(s, j, ResultResponse(result))
    [] s.kind[j] = "EXTRACT_ZIP_PROCESS" ->
         IF TotalSize(result) > MAX_MESSAGE_SIZE
         THEN StoreAndDescribe(s, j, ProcessResultId(s.transferId[j]),
                               IF result.multiple THEN StoredMultiple(result)
                               ELSE StoredSingle(result))
         ELSE Respond(s, j, ResultResponse(result))
    [] OTHER -> Respond(s, j, ResultResponse(result))

\* resolve(result) / reject(error) of job j's resultPromise.  A handler that
\* already ended (the TypeError above) has nobody awaiting the promise.
Settle(s, j, outcome) ==
  IF s.pc[j] # "awaitResult" THEN s
  ELSE IF outcome.ok THEN ReturnResult(s, j, outcome.result)
  ELSE Respond(s, j, ErrorResponse(outcome.error, outcome.by))

Resolved(result) == [ok |-> TRUE, result |-> result]
Rejected(msg, by) == [ok |-> FALSE, error |-> msg, by |-> by]

\* ------------------------------------------------------------------ worker
\* The text the opaque engine produces for job j, n code units long.
ResultText(j, n) == [i \in 1..n |-> 100 * j + i]

\* The engine's output is at the ceiling (sent inline) or one code unit over.
ResultLens == {MAX_MESSAGE_SIZE, MAX_MESSAGE_SIZE + 1}

EngineResult(j, n) == SingleResult(j, ResultText(j, n), "video/mp4")

\* The text of the v-th video the engine extracts for job j.
VideoText(j, v, n) == [i \in 1..n |-> 100 * j + 10 * v + i]

\* An archive with two videos: together at the ceiling, or one code unit over.
MultiLens == {<<1, MAX_MESSAGE_SIZE - 1>>, <<1, MAX_MESSAGE_SIZE>>}

EngineVideos(j, lens) ==
  MultipleResult(j, [v \in 1..Len(lens) |-> VideoText(j, v, lens[v])])

\* What the engine may produce for job j: transcodeVideo returns one video,
\* the extractions one or several.
EngineSingles(j) == {EngineResult(j, n) : n \in ResultLens}

EngineResults(j) ==
  EngineSingles(j)
    \cup (IF kind[j] = "TRANSCODE_VIDEO" THEN {}
          ELSE {EngineVideos(j, lens) : lens \in MultiLens})

\* The RESULT_CHUNK messages of sendResult's loops over text.
ResultChunks(j, text, totalChunks) ==
  [i \in 1..totalChunks |->
     [type |-> "RESULT_CHUNK", job |-> j, chunkIndex |-> i - 1,
      chunk |-> ChunkOf(text, MAX_MESSAGE_SIZE, i - 1)]]

\* The start/chunk/end sequence for the text of result; sent is a ghost
\* field, the result sendResult was called with.
ChunkedMessages(result, text, mimeType, isMultipleVideos) ==
  LET totalChunks == CeilDiv(Len(text), MAX_MESSAGE_SIZE)
      j == result.job
  IN <<[type |-> "RESULT_CHUNKED_START", job |-> j, mimeType |-> mimeType,
        isMultipleVideos |-> isMultipleVideos, totalChunks |-> totalChunks,
        totalLength |-> Len(text)]>>
     \o ResultChunks(j, text, totalChunks)
     \o <<[type |-> "RESULT_CHUNKED_END", job |-> j, sent |-> result]>>

\* A sendResult that leaves an oversized result's sequence without its END.
sendResult_Unclosed(result) ==
  IF TotalSize(result) <= MAX_MESSAGE_SIZE
  THEN <<[type |-> "RESULT", job |-> result.job, error |-> "", result |-> result]>>
  ELSE LET all == IF result.multiple
                  THEN ChunkedMessages(result, JSONstringify(result.videos), "", TRUE)
                  ELSE ChunkedMessages(result, result.base64, result.mimeType, FALSE)
       IN SubSeq(all, 1, Len(all) - 1)

\* sendResult(result): the messages it posts, in order.
sendResult(result) ==
  IF TotalSize(result) <= MAX_MESSAGE_SIZE
  THEN <<[type |-> "RESULT", job |-> result.job, error |-> "", result |-> result]>>
  ELSE IF result.multiple
  THEN ChunkedMessages(result, JSONstringify(result.videos), "", TRUE)
  ELSE ChunkedMessages(result, result.base64, result.mimeType, FALSE)

\* .catch(error => port.postMessage({ type: 'RESULT', error: ... }))
ErrorResult(j) ==
  [type |-> "RESULT", job |-> j, error |-> "engine failure", result |-> NoEntry]

\* ------------------------------------------------------------------- Init
Init ==
  /\ creatingOffscreen = "null"
  /\ offscreenPort = Null
  /\ pendingTranscode = Null
  /\ offscreenReady = FALSE
  /\ offscreenReadyResolve = Null
  /\ chunkStorage = [t \in TransferIds |-> NoEntry]
  /\ resultStorage = [r \in ResultIds |-> NoEntry]
  /\ chunkedResult = NoEntry
  /\ pc = [j \in Jobs |-> "idle"]
  /\ kind = [j \in Jobs |-> "none"]
  /\ transferId = [j \in Jobs |-> Null]
  /\ zipBase64 = [j \in Jobs |-> <<>>]
  /\ attempts = [j \in Jobs |-> 0]
  /\ response = [j \in Jobs |-> NoResponse]
  /\ jobTimers = <<>>
  /\ readyTimers = {}
  /\ docExists = FALSE
  /\ workerGen = 0
  /\ toWorker = <<>>
  /\ fromWorker = <<>>
  /\ workerJobs = {}
  /\ chunkedInput = NoEntry
  /\ arrived = <<>>
  /\ pulled = <<>>
  /\ clientZip = <<>>
  /\ codec = NoCodec
  /\ tabMessages = <<>>
  /\ uploadFailed = FALSE

\* --------------------------------------------- chrome.runtime.onMessage
\* Requests are numbered in the order the listener receives them.
Arrives(j) == pc[j] = "idle" /\ (IF j = 1 THEN TRUE ELSE pc[j - 1] # "idle")

StartJob(j, k, t, zip) ==
  ensureOffscreenDocument(
    [Cur EXCEPT !.kind[j] = k, !.transferId[j] = t, !.zipBase64[j] = zip], j)

handleTranscode(j) ==
  /\ Arrives(j)
  /\ Commit(StartJob(j, "TRANSCODE_VIDEO", Null, <<>>))
  /\ UNCHANGED <<creatingOffscreen, offscreenPort, offscreenReady, chunkStorage,
                 chunkedResult, docExists, workerGen, fromWorker, workerJobs,
                 chunkedInput, arrived, pulled, clientZip, codec, tabMessages, uploadFailed>>

handleExtractZip(j) ==
  /\ Arrives(j)
  /\ Commit(StartJob(j, "EXTRACT_ZIP", Null, <<>>))
  /\ UNCHANGED <<creatingOffscreen, offscreenPort, offscreenReady, chunkStorage,
                 chunkedResult, docExists, workerGen, fromWorker, workerJobs,
                 chunkedInput, arrived, pulled, clientZip, codec, tabMessages, uploadFailed>>

handleExtractZipData(j, zip) ==
  /\ Arrives(j)
  /\ Commit(StartJob(j, "EXTRACT_ZIP_DATA", Null, zip))
  /\ UNCHANGED <<creatingOffscreen, offscreenPort, offscreenReady, chunkStorage,
                 chunkedResult, docExists, workerGen, fromWorker, workerJobs,
                 chunkedInput, arrived, pulled, clientZip, codec, tabMessages, uploadFailed>>

handleExtractZipChunk(t, chunkIndex, totalChunks, chunk) ==
  /\ Len(arrived) < MaxChunkMsgs
  /\ arrived' = Append(arrived, [transferId |-> t, chunkIndex |-> chunkIndex])
  /\ LET storage == IF chunkStorage[t] = NoEntry
                    THEN [chunks |-> NewArray(totalChunks),
                          totalChunks |-> totalChunks, received |-> 0]
                    ELSE chunkStorage[t]
     IN chunkStorage' =
          [chunkStorage EXCEPT
             ![t] = [storage EXCEPT
                       !.chunks = ArraySet(storage.chunks, chunkIndex, chunk),
                       !.received = storage.received + 1]]
  /\ UNCHANGED <<creatingOffscreen, offscreenPort, pendingTranscode, offscreenReady,
                 offscreenReadyResolve, resultStorage, chunkedResult, pc, kind,
                 transferId, zipBase64, attempts, response, jobTimers, readyTimers,
                 docExists, workerGen, toWorker, fromWorker, workerJobs,
                 chunkedInput, pulled, clientZip, codec, tabMessages, uploadFailed>>

\* A gate that lets every transfer with at least one chunk through.
GatePasses_AnyChunk(storage) == storage.received >= 1

\* A dispatcher that keeps the staging entry after it joined the chunks.
DeleteTransfer_Keeps(storage, t) == storage

\* chunkStorage.delete(transferId)
DeleteTransfer(storage, t) == [storage EXCEPT ![t] = NoEntry]

\* A dispatcher that drops the staging entry of a transfer it refuses.
RefusedTransfer_Dropped(storage, t) == [storage EXCEPT ![t] = NoEntry]

\* throw new Error(`Incomplete transfer: ...`) comes before any write: the
\* staging map after it.
RefusedTransfer(storage, t) == storage

\* The two checks handleExtractZipProcess makes before it joins the chunks.
TransferFound(storage) == storage # NoEntry
GatePasses(storage) == storage.received = storage.totalChunks

handleExtractZipProcess(j, t) ==
  /\ Arrives(j)
  /\ LET storage == chunkStorage[t]
         named == [Cur EXCEPT !.kind[j] = "EXTRACT_ZIP_PROCESS", !.transferId[j] = t]
     IN IF ~TransferFound(storage)
        THEN /\ Commit(Respond(named, j, NotFoundError("Transfer not found")))
             /\ UNCHANGED chunkStorage
        ELSE IF ~GatePasses(storage)
        THEN /\ Commit(Respond(named, j, ErrorResponse("Incomplete transfer", Null)))
             /\ chunkStorage' = RefusedTransfer(chunkStorage, t)
        ELSE /\ Commit(StartJob(j, "EXTRACT_ZIP_PROCESS", t, Join(storage.chunks)))
             /\ chunkStorage' = DeleteTransfer(chunkStorage, t)
  /\ UNCHANGED <<creatingOffscreen, offscreenPort, offscreenReady, chunkedResult,
                 docExists, workerGen, fromWorker, workerJobs, chunkedInput,
                 arrived, pulled, clientZip, codec, tabMessages, uploadFailed>>

\* { chunk, isLast }
ChunkResponse(chunk, isLast) == [type |-> "chunk", chunk |-> chunk, isLast |-> isLast]

\* const data = stored.isMultipleVideos ? stored.json : stored.base64
StoredData(stored) == IF stored.isMultipleVideos THEN stored.json ELSE stored.base64

\* A dispatcher that tests the unclamped end of the chunk with >.
IsLast_Strict(data, chunkIndex) ==
  chunkIndex * MAX_MESSAGE_SIZE + MAX_MESSAGE_SIZE > Len(data)

\* const isLast = end >= data.length
IsLast(data, chunkIndex) ==
  Min(chunkIndex * MAX_MESSAGE_SIZE + MAX_MESSAGE_SIZE, Len(data)) >= Len(data)

\* A dispatcher that keeps a stored result after its last chunk was pulled.
AfterPull_Keeps(storage, resultId, isLast) == storage

\* if (isLast) { resultStorage.delete(resultId); }
AfterPull(storage, resultId, isLast) ==
  IF isLast THEN [storage EXCEPT ![resultId] = NoEntry] ELSE storage

handleGetResultChunk(resultId, chunkIndex) ==
  /\ LET stored == resultStorage[resultId]
         answer(r) == pulled' = Append(pulled, [resultId |-> resultId,
                                                chunkIndex |-> chunkIndex,
                                                response |-> r])
     IN IF stored = NoEntry
        THEN /\ answer(NotFoundError("Result not found"))
             /\ UNCHANGED resultStorage
        ELSE /\ answer(ChunkResponse(ChunkOf(StoredData(stored), MAX_MESSAGE_SIZE,
                                             chunkIndex),
                                     IsLast(StoredData(stored), chunkIndex)))
             /\ resultStorage' = AfterPull(resultStorage, resultId,
                                           IsLast(StoredData(stored), chunkIndex))
  /\ UNCHANGED <<creatingOffscreen, offscreenPort, pendingTranscode, offscreenReady,
                 offscreenReadyResolve, chunkStorage, chunkedResult, pc, kind,
                 transferId, zipBase64, attempts, response, jobTimers, readyTimers,
                 docExists, workerGen, toWorker, fromWorker, workerJobs,
                 chunkedInput, arrived, clientZip, codec, tabMessages, uploadFailed>>

\* ------------------------------------- ensureOffscreenDocument, after awaits
RECURSIVE ContinueAll(_, _, _)
\* The continuations of the jobs in js (lowest first), each run by op.
ContinueAll(s, js, failed) ==
  IF js = {} THEN s
  ELSE LET j == CHOOSE x \in js : \A y \in js : x <= y
           next == IF failed
                   THEN Respond(s, j, ErrorResponse("createDocument failed", Null))
                   ELSE EnterPoll(s, j)
       IN ContinueAll(next, js \ {j}, failed)

\* A dispatcher that never looks at the marker before it creates.
CreationMarked_Never(marker) == FALSE

\* if (creatingOffscreen): the marker holds a promise, pending or rejected.
CreationMarked(marker) == marker # "null"

\* chrome.runtime.getContexts answers job j.
GetContextsResolved(j) ==
  /\ pc[j] = "getContexts"
  /\ IF docExists
     THEN Commit(EnterPoll(Cur, j)) /\ UNCHANGED creatingOffscreen
     ELSE IF ~CreationMarked(creatingOffscreen)
     THEN /\ Commit([Cur EXCEPT !.pc[j] = "creating"])
          /\ creatingOffscreen' = "pending"
     ELSE IF creatingOffscreen = "rejected"
     THEN /\ Commit(Respond(Cur, j, ErrorResponse("createDocument failed", Null)))
          /\ UNCHANGED creatingOffscreen
     ELSE /\ Commit([Cur EXCEPT !.pc[j] = "awaitCreating"])
          /\ UNCHANGED creatingOffscreen
  /\ UNCHANGED <<offscreenPort, offscreenReady, chunkStorage, chunkedResult,
                 docExists, workerGen, fromWorker, workerJobs, chunkedInput,
                 arrived, pulled, clientZip, codec, tabMessages, uploadFailed>>

\* The host builds the offscreen document a createDocument call asked for:
\* one document for one call.
HostCreatesDocument ==
  /\ creatingOffscreen = "pending"
  /\ ~docExists
  /\ workerGen < MaxWorkers
  /\ docExists' = TRUE
  /\ workerGen' = workerGen + 1
  /\ creatingOffscreen' = "created"
  /\ UNCHANGED <<offscreenPort, pendingTranscode, offscreenReady,
                 offscreenReadyResolve, chunkStorage, resultStorage, chunkedResult,
                 pc, kind, transferId, zipBase64, attempts, response, jobTimers,
                 readyTimers, toWorker, fromWorker, workerJobs, chunkedInput,
                 arrived, pulled, clientZip, codec, tabMessages, uploadFailed>>

Awaiting == {j \in Jobs : pc[j] \in {"creating", "awaitCreating"}}

\* The createDocument promise is fulfilled: the creator clears the marker, and
\* the creator and every caller awaiting the same promise go on to the poll.
CreateDocumentResolved ==
  /\ creatingOffscreen = "created"
  /\ creatingOffscreen' = "null"
  /\ Commit(ContinueAll(Cur, Awaiting, FALSE))
  /\ UNCHANGED <<offscreenPort, offscreenReady, chunkStorage, chunkedResult,
                 docExists, workerGen, fromWorker, workerJobs, chunkedInput,
                 arrived, pulled, clientZip, codec, tabMessages, uploadFailed>>

\* The createDocument promise is rejected: "await creatingOffscreen" throws in
\* the creator before line 34, and in every caller awaiting the same promise.
CreateDocumentRejected ==
  /\ creatingOffscreen = "pending"
  /\ ~docExists
  /\ creatingOffscreen' = "rejected"
  /\ Commit(ContinueAll(Cur, Awaiting, TRUE))
  /\ UNCHANGED <<offscreenPort, offscreenReady, chunkStorage, chunkedResult,
                 docExists, workerGen, fromWorker, workerJobs, chunkedInput,
                 arrived, pulled, clientZip, codec, tabMessages, uploadFailed>>

\* One turn of the poll loop: the 100 ms timer fires, attempts++, the loop
\* condition is evaluated again.
PollTick(j) ==
  /\ pc[j] = "poll"
  /\ LET ticked == [Cur EXCEPT !.attempts[j] = attempts[j] + 1]
     IN IF PollAgain(offscreenPort, ticked.attempts[j])
        THEN Commit(ticked)
        ELSE Commit(AfterPoll(ticked, j))
  /\ UNCHANGED <<creatingOffscreen, offscreenPort, offscreenReady, chunkStorage,
                 chunkedResult, docExists, workerGen, fromWorker, workerJobs,
                 chunkedInput, arrived, pulled, clientZip, codec, tabMessages, uploadFailed>>

\* offscreenReadyResolve(); offscreenReadyResolve = null;  The job whose
\* promise the resolver settles returns from ensureOffscreenDocument.
ResolveReady(s) ==
  IF s.offscreenReadyResolve = Null THEN s
  ELSE LET w == s.offscreenReadyResolve
           cleared == [s EXCEPT !.offscreenReadyResolve = Null]
       IN IF s.pc[w] = "waitReady" THEN Dispatch(cleared, w) ELSE cleared

\* The 5 s readiness timer armed by job j fires.
ReadyTimeout(j) ==
  /\ j \in readyTimers
  /\ Commit(ResolveReady([Cur EXCEPT !.readyTimers = readyTimers \ {j}]))
  /\ UNCHANGED <<creatingOffscreen, offscreenPort, offscreenReady, chunkStorage,
                 chunkedResult, docExists, workerGen, fromWorker, workerJobs,
                 chunkedInput, arrived, pulled, clientZip, codec, tabMessages, uploadFailed>>

\* ---------------------------------------------------------- deadline timers
\* Timers fire in deadline order: one armed earlier with a delay no longer
\* than another's fires first.
MayFire(i) ==
  \A e \in 1..(i - 1) : Deadline(kind[jobTimers[e]]) > Deadline(kind[jobTimers[i]])

RemoveAt(seq, i) == SubSeq(seq, 1, i - 1) \o SubSeq(seq, i + 1, Len(seq))

\* A timer callback that rejects the pending job and forgets to clear the slot.
TimerBody_KeepsSlot(s, j) ==
  IF s.pendingTranscode = Null THEN s
  ELSE Settle(s, s.pendingTranscode, Rejected(TimeoutMessage(s.kind[j]), j))

\* if (pendingTranscode) { pendingTranscode.reject(...); pendingTranscode = null; }
\* in the timer armed by job j.
TimerBody(s, j) ==
  IF s.pendingTranscode = Null THEN s
  ELSE Settle([s EXCEPT !.pendingTranscode = Null], s.pendingTranscode,
              Rejected(TimeoutMessage(s.kind[j]), j))

JobTimeout(i) ==
  /\ i \in 1..Len(jobTimers)
  /\ MayFire(i)
  /\ Commit(TimerBody([Cur EXCEPT !.jobTimers = RemoveAt(jobTimers, i)], jobTimers[i]))
  /\ UNCHANGED <<creatingOffscreen, offscreenPort, offscreenReady, chunkStorage,
                 chunkedResult, docExists, workerGen, fromWorker, workerJobs,
                 chunkedInput, arrived, pulled, clientZip, codec, tabMessages, uploadFailed>>

\* ------------------------------------------------ chrome.runtime.onConnect
\* The offscreen script runs: chrome.runtime.connect, and at its end
\* port.postMessage({ type: 'READY' }).
onConnect ==
  /\ docExists
  /\ offscreenPort = Null
  /\ offscreenPort' = workerGen
  /\ fromWorker' = <<[type |-> "READY", job |-> Null]>>
  /\ UNCHANGED <<creatingOffscreen, pendingTranscode, offscreenReady,
                 offscreenReadyResolve, chunkStorage, resultStorage, chunkedResult,
                 pc, kind, transferId, zipBase64, attempts, response, jobTimers,
                 readyTimers, docExists, workerGen, toWorker, workerJobs,
                 chunkedInput, arrived, pulled, clientZip, codec, tabMessages, uploadFailed>>

\* A listener that leaves the port in place.
Disconnected_KeepsPort(port) == port

\* offscreenPort = null
Disconnected(port) == Null

\* The offscreen document goes away; messages it had posted were delivered.
onDisconnect ==
  /\ offscreenPort # Null
  /\ docExists
  /\ fromWorker = <<>>
  /\ offscreenPort' = Disconnected(offscreenPort)
  /\ docExists' = FALSE
  /\ toWorker' = <<>>
  /\ workerJobs' = {}
  /\ chunkedInput' = NoEntry
  /\ UNCHANGED <<creatingOffscreen, pendingTranscode, offscreenReady,
                 offscreenReadyResolve, chunkStorage, resultStorage, chunkedResult,
                 pc, kind, transferId, zipBase64, attempts, response, jobTimers,
                 readyTimers, workerGen, fromWorker, arrived, pulled, clientZip, codec, tabMessages, uploadFailed>>

\* The port's onMessage listener is about to run on message.
Delivered(type) ==
  /\ offscreenPort # Null
  /\ fromWorker # <<>>
  /\ Head(fromWorker).type = type

OnReady ==
  /\ Delivered("READY")
  /\ fromWorker' = Tail(fromWorker)
  /\ offscreenReady' = TRUE
  /\ Commit(ResolveReady(Cur))
  /\ UNCHANGED <<creatingOffscreen, offscreenPort, chunkStorage, chunkedResult,
                 docExists, workerGen, workerJobs, chunkedInput, arrived, pulled, clientZip, codec, tabMessages, uploadFailed>>

\* A listener that settles the pending job and leaves the slot as it is.
ResultBody_KeepsSlot(s, message) ==
  IF s.pendingTranscode = Null THEN s
  ELSE Settle(s, s.pendingTranscode,
              IF message.error # "" THEN Rejected(message.error, message.job)
              ELSE Resolved(message.result))

\* if (message.type === 'RESULT' && pendingTranscode) { ... }
ResultBody(s, message) ==
  IF s.pendingTranscode = Null THEN s
  ELSE Settle([s EXCEPT !.pendingTranscode = Null], s.pendingTranscode,
              IF message.error # "" THEN Rejected(message.error, message.job)
              ELSE Resolved(message.result))

OnResult ==
  /\ Delivered("RESULT")
  /\ fromWorker' = Tail(fromWorker)
  /\ Commit(ResultBody(Cur, Head(fromWorker)))
  /\ UNCHANGED <<creatingOffscreen, offscreenPort, offscreenReady, chunkStorage,
                 chunkedResult, docExists, workerGen, workerJobs, chunkedInput,
                 arrived, pulled, clientZip, codec, tabMessages, uploadFailed>>

\* A listener that opens a new staging only when it holds none.
NewStaging_KeepsOld(staging, message) ==
  IF staging # NoEntry THEN staging
  ELSE [mimeType |-> message.mimeType,
        isMultipleVideos |-> message.isMultipleVideos,
        totalChunks |-> message.totalChunks,
        chunks |-> <<>>, received |-> 0]

\* chunkedResult = { mimeType, isMultipleVideos, totalChunks, chunks: [], received: 0 }
NewStaging(staging, message) ==
  [mimeType |-> message.mimeType,
   isMultipleVideos |-> message.isMultipleVideos,
   totalChunks |-> message.totalChunks,
   chunks |-> <<>>, received |-> 0]

OnResultChunkedStart ==
  /\ Delivered("RESULT_CHUNKED_START")
  /\ fromWorker' = Tail(fromWorker)
  /\ chunkedResult' = NewStaging(chunkedResult, Head(fromWorker))
  /\ UNCHANGED <<creatingOffscreen, offscreenPort, pendingTranscode, offscreenReady,
                 offscreenReadyResolve, chunkStorage, resultStorage, pc, kind,
                 transferId, zipBase64, attempts, response, jobTimers, readyTimers,
                 docExists, workerGen, toWorker, workerJobs, chunkedInput,
                 arrived, pulled, clientZip, codec, tabMessages, uploadFailed>>

OnResultChunk ==
  /\ Delivered("RESULT_CHUNK")
  /\ fromWorker' = Tail(fromWorker)
  /\ chunkedResult' =
       IF chunkedResult = NoEntry THEN chunkedResult
       ELSE [chunkedResult EXCEPT
               !.chunks = ArraySet(chunkedResult.chunks, Head(fromWorker).chunkIndex,
                                   Head(fromWorker).chunk),
               !.received = chunkedResult.received + 1]
  /\ UNCHANGED <<creatingOffscreen, offscreenPort, pendingTranscode, offscreenReady,
                 offscreenReadyResolve, chunkStorage, resultStorage, pc, kind,
                 transferId, zipBase64, attempts, response, jobTimers, readyTimers,
                 docExists, workerGen, toWorker, workerJobs, chunkedInput,
                 arrived, pulled, clientZip, codec, tabMessages, uploadFailed>>

\* A handler that takes every joined text for the base64 of one video.
Combined_Raw(chunked, j) == SingleResult(j, Join(chunked.chunks), chunked.mimeType)

\* The result the RESULT_CHUNKED_END handler builds from the chunks; job is
\* the ghost name of the job whose result the worker was sending.
Combined(chunked, j) ==
  IF chunked.isMultipleVideos
  THEN MultipleResult(j, JSONparse(Join(chunked.chunks)))
  ELSE SingleResult(j, Join(chunked.chunks), chunked.mimeType)

\* if (message.type === 'RESULT_CHUNKED_END' && chunkedResult && pendingTranscode);
\* when JSON.parse throws the listener ends there, with nothing assigned.
OnResultChunkedEnd ==
  /\ Delivered("RESULT_CHUNKED_END")
  /\ fromWorker' = Tail(fromWorker)
  /\ IF chunkedResult # NoEntry /\ pendingTranscode # Null
        /\ (chunkedResult.isMultipleVideos => IsJSON(Join(chunkedResult.chunks)))
     THEN /\ chunkedResult' = NoEntry
          /\ Commit(Settle([Cur EXCEPT !.pendingTranscode = Null], pendingTranscode,
                           Resolved(Combined(chunkedResult, Head(fromWorker).job))))
     ELSE /\ UNCHANGED chunkedResult
          /\ Commit(Cur)
  /\ UNCHANGED <<creatingOffscreen, offscreenPort, offscreenReady, chunkStorage,
                 docExists, workerGen, workerJobs, chunkedInput, arrived, pulled, clientZip, codec, tabMessages, uploadFailed>>

\* ------------------------------------------- the worker's port.onMessage
WorkerReceives(type) ==
  /\ offscreenPort # Null
  /\ toWorker # <<>>
  /\ Head(toWorker).type = type

dispatcherVarsButCodec ==
  <<creatingOffscreen, offscreenPort, pendingTranscode, offscreenReady,
    offscreenReadyResolve, chunkStorage, resultStorage, chunkedResult, pc, kind,
    transferId, zipBase64, attempts, response, jobTimers, readyTimers, docExists,
    workerGen, arrived, pulled, clientZip>>

dispatcherVars == <<dispatcherVarsButCodec, codec, tabMessages, uploadFailed>>

\* TRANSCODE, EXTRACT_ZIP, EXTRACT_ZIP_DATA: the job's promise chain starts.
WorkerStartsJob ==
  /\ \E type \in {"TRANSCODE", "EXTRACT_ZIP", "EXTRACT_ZIP_DATA"} : WorkerReceives(type)
  /\ toWorker' = Tail(toWorker)
  /\ workerJobs' = workerJobs \cup {Head(toWorker).job}
  /\ UNCHANGED <<dispatcherVars, fromWorker, chunkedInput>>

WorkerDataStart ==
  /\ WorkerReceives("EXTRACT_ZIP_DATA_START")
  /\ toWorker' = Tail(toWorker)
  /\ chunkedInput' = [totalChunks |-> Head(toWorker).totalChunks, chunks |-> <<>>,
                      received |-> 0]
  /\ UNCHANGED <<dispatcherVars, fromWorker, workerJobs>>

WorkerDataChunk ==
  /\ WorkerReceives("EXTRACT_ZIP_DATA_CHUNK")
  /\ toWorker' = Tail(toWorker)
  /\ chunkedInput' =
       IF chunkedInput = NoEntry THEN chunkedInput
       ELSE [chunkedInput EXCEPT
               !.chunks = ArraySet(chunkedInput.chunks, Head(toWorker).chunkIndex,
                                   Head(toWorker).chunk),
               !.received = chunkedInput.received + 1]
  /\ UNCHANGED <<dispatcherVars, fromWorker, workerJobs>>

WorkerDataEnd ==
  /\ WorkerReceives("EXTRACT_ZIP_DATA_END")
  /\ toWorker' = Tail(toWorker)
  /\ IF chunkedInput # NoEntry
     THEN /\ chunkedInput' = NoEntry
          /\ workerJobs' = workerJobs \cup {Head(toWorker).job}
     ELSE UNCHANGED <<chunkedInput, workerJobs>>
  /\ UNCHANGED <<dispatcherVars, fromWorker>>

\* .then(result => sendResult(result))
WorkerSucceeds(j, result) ==
  /\ j \in workerJobs
  /\ workerJobs' = workerJobs \ {j}
  /\ fromWorker' = fromWorker \o sendResult(result)
  /\ UNCHANGED <<dispatcherVars, toWorker, chunkedInput>>

\* .catch(error => port.postMessage({ type: 'RESULT', error: ... }))
WorkerFails(j) ==
  /\ j \in workerJobs
  /\ workerJobs' = workerJobs \ {j}
  /\ fromWorker' = Append(fromWorker, ErrorResult(j))
  /\ UNCHANGED <<dispatcherVars, toWorker, chunkedInput>>

\* --------------------------------------------------------------- inputs
\* A chunk message is one a client could cut: index below its own total,
\* at most a ceiling long.  Messages of one transfer need not agree.
DataInputs == {Piece(0, 1)}

Next ==
  \/ \E j \in Jobs : handleTranscode(j)
  \/ \E j \in Jobs : handleExtractZip(j)
  \/ \E j \in Jobs, zip \in DataInputs : handleExtractZipData(j, zip)
  \/ \E t \in TransferIds, n \in 1..MaxTotalChunks :
       \E i \in 0..(n - 1), len \in 1..MAX_MESSAGE_SIZE :
         handleExtractZipChunk(t, i, n, Piece(i, len))
  \/ \E j \in Jobs, t \in TransferIds : handleExtractZipProcess(j, t)
  \/ \E r \in ResultIds, i \in 0..MaxPullIndex :
       Len(pulled) < MaxPulls /\ handleGetResultChunk(r, i)
  \/ \E j \in Jobs : GetContextsResolved(j)
  \/ HostCreatesDocument
  \/ CreateDocumentResolved
  \/ CreateDocumentRejected
  \/ \E j \in Jobs : PollTick(j)
  \/ \E j \in Jobs : ReadyTimeout(j)
  \/ \E i \in 1..NJobs : JobTimeout(i)
  \/ onConnect
  \/ onDisconnect
  \/ OnReady
  \/ OnResult
  \/ OnResultChunkedStart
  \/ OnResultChunk
  \/ OnResultChunkedEnd
  \/ WorkerStartsJob
  \/ WorkerDataStart
  \/ WorkerDataChunk
  \/ WorkerDataEnd
  \/ \E j \in Jobs : \E result \in EngineResults(j) : WorkerSucceeds(j, result)
  \/ \E j \in Jobs : WorkerFails(j)

Spec == Init /\ [][Next]_vars

\* ------------------------------------------------- the dispatcher with a
\* live worker: an earlier request has created the offscreen document, the
\* worker has connected and announced READY, and a client has uploaded every
\* chunk of transfer 1 (a client chunks an upload only when it takes two
\* chunks or more).  The jobs overlap freely; each yields a single video.
CompleteTransfer(n) ==
  [chunks |-> [i \in 1..n |-> Piece(i - 1, MAX_MESSAGE_SIZE)], totalChunks |-> n,
   received |-> n]

InitLive ==
  /\ creatingOffscreen = "null"
  /\ offscreenPort = 1
  /\ pendingTranscode = Null
  /\ offscreenReady = TRUE
  /\ offscreenReadyResolve = Null
  /\ \E n \in 2..MaxTotalChunks :
       chunkStorage = [t \in TransferIds |-> IF t = 1 THEN CompleteTransfer(n) ELSE NoEntry]
  /\ resultStorage = [r \in ResultIds |-> NoEntry]
  /\ chunkedResult = NoEntry
  /\ pc = [j \in Jobs |-> "idle"]
  /\ kind = [j \in Jobs |-> "none"]
  /\ transferId = [j \in Jobs |-> Null]
  /\ zipBase64 = [j \in Jobs |-> <<>>]
  /\ attempts = [j \in Jobs |-> 0]
  /\ response = [j \in Jobs |-> NoResponse]
  /\ jobTimers = <<>>
  /\ readyTimers = {}
  /\ docExists = TRUE
  /\ workerGen = 1
  /\ toWorker = <<>>
  /\ fromWorker = <<>>
  /\ workerJobs = {}
  /\ chunkedInput = NoEntry
  /\ arrived = <<>>
  /\ pulled = <<>>
  /\ clientZip = <<>>
  /\ codec = NoCodec
  /\ tabMessages = <<>>
  /\ uploadFailed = FALSE

NextJobs ==
  \/ \E j \in Jobs : handleTranscode(j)
  \/ \E j \in Jobs : handleExtractZip(j)
  \/ \E j \in Jobs, zip \in DataInputs : handleExtractZipData(j, zip)
  \/ \E j \in Jobs, t \in TransferIds : handleExtractZipProcess(j, t)
  \/ \E i \in 1..NJobs : JobTimeout(i)
  \/ OnResult
  \/ OnResultChunkedStart
  \/ OnResultChunk
  \/ OnResultChunkedEnd
  \/ WorkerStartsJob
  \/ WorkerDataStart
  \/ WorkerDataChunk
  \/ WorkerDataEnd
  \/ \E j \in Jobs : \E result \in EngineSingles(j) : WorkerSucceeds(j, result)
  \/ \E j \in Jobs : WorkerFails(j)

SpecJobs == InitLive /\ [][NextJobs]_vars

\* Timers fire and delivered messages are processed; nothing obliges the
\* worker to finish a job or a client to send a request.
FairJobs ==
  /\ SpecJobs
  /\ WF_vars(\E i \in 1..NJobs : JobTimeout(i))
  /\ WF_vars(OnResult)
  /\ WF_vars(OnResultChunkedStart)
  /\ WF_vars(OnResultChunk)
  /\ WF_vars(OnResultChunkedEnd)
  /\ WF_vars(WorkerStartsJob)
  /\ WF_vars(WorkerDataStart)
  /\ WF_vars(WorkerDataChunk)
  /\ WF_vars(WorkerDataEnd)

\* ------------------------------------------------- the staging map alone:
\* chunk messages and process requests, from construction.
NextTransfer ==
  \/ \E t \in TransferIds, n \in 1..MaxTotalChunks :
       \E i \in 0..(n - 1), len \in 1..MAX_MESSAGE_SIZE :
         handleExtractZipChunk(t, i, n, Piece(i, len))
  \/ \E j \in Jobs, t \in TransferIds : handleExtractZipProcess(j, t)

SpecTransfer == Init /\ [][NextTransfer]_vars

\* ------------------------------------------------- the connection: job
\* requests from construction, the host creating and closing the offscreen
\* document, the worker connecting and announcing READY.  Jobs stay pending:
\* the worker's answers and the deadline timers are left to SpecJobs.
NextConnect ==
  \/ \E j \in Jobs : handleTranscode(j)
  \/ \E j \in Jobs : GetContextsResolved(j)
  \/ HostCreatesDocument
  \/ CreateDocumentResolved
  \/ CreateDocumentRejected
  \/ \E j \in Jobs : PollTick(j)
  \/ \E j \in Jobs : ReadyTimeout(j)
  \/ onConnect
  \/ onDisconnect
  \/ OnReady

SpecConnect == Init /\ [][NextConnect]_vars

\* The creation of the offscreen document alone, with overlapping callers:
\* the callers that reach the poll loop are left there.
NextCreate ==
  \/ \E j \in Jobs : handleTranscode(j)
  \/ \E j \in Jobs : GetContextsResolved(j)
  \/ HostCreatesDocument
  \/ CreateDocumentResolved
  \/ CreateDocumentRejected
  \/ \E j \in Jobs : ReadyTimeout(j)
  \/ onConnect
  \/ onDisconnect
  \/ OnReady

SpecCreate == Init /\ [][NextCreate]_vars

\* No other request is inside ensureOffscreenDocument: the clients submit
\* their requests one after the other.
Sequential(j) == \A k \in Jobs \ {j} : pc[k] \in {"idle", "awaitResult", "done"}

\* The whole connection sequence, for requests that come one at a time.
NextRecover ==
  \/ \E j \in Jobs : Sequential(j) /\ handleTranscode(j)
  \/ \E j \in Jobs : GetContextsResolved(j)
  \/ HostCreatesDocument
  \/ CreateDocumentResolved
  \/ CreateDocumentRejected
  \/ \E j \in Jobs : PollTick(j)
  \/ \E j \in Jobs : ReadyTimeout(j)
  \/ onConnect
  \/ onDisconnect
  \/ OnReady

SpecRecover == Init /\ [][NextRecover]_vars

\* A request is received while no job is awaiting its result.
NoneAwaiting == \A k \in Jobs : pc[k] # "awaitResult"

\* ------------------------------------------------- the result map: jobs
\* that come one at a time and whose results, of either shape, may be
\* stored, and, at any time, a process request that names no staged transfer
\* and GET_RESULT_CHUNK requests from any sender, for any identifier and
\* index, on the dispatcher with a live worker.
NextPull ==
  \/ \E j \in Jobs, zip \in DataInputs : NoneAwaiting /\ handleExtractZipData(j, zip)
  \/ \E j \in Jobs, t \in TransferIds :
       (NoneAwaiting \/ ~TransferFound(chunkStorage[t])) /\ handleExtractZipProcess(j, t)
  \/ \E r \in ResultIds, i \in 0..MaxPullIndex :
       Len(pulled) < MaxPulls /\ handleGetResultChunk(r, i)
  \/ OnResult
  \/ OnResultChunkedStart
  \/ OnResultChunk
  \/ OnResultChunkedEnd
  \/ WorkerStartsJob
  \/ WorkerDataStart
  \/ WorkerDataChunk
  \/ WorkerDataEnd
  \/ \E j \in Jobs : \E result \in EngineResults(j) : WorkerSucceeds(j, result)

SpecPull == InitLive /\ [][NextPull]_vars

\* ------------------------------------------------- the content script's
\* extractZipVideo: one client, whose request is job 1 and whose transfer is
\* transfer 1, uploads the archive clientZip and fetches the result.
Payload(n) == [i \in 1..n |-> 10 + i]

\* Archives from the empty one to one that fills every chunk of a transfer.
Payloads == {Payload(n) : n \in 0..(MaxTotalChunks * MAX_MESSAGE_SIZE)}

\* if (zipBase64.length > MAX_CHUNK_SIZE)
ClientChunks == Len(clientZip) > MAX_MESSAGE_SIZE

ClientTotalChunks == CeilDiv(Len(clientZip), MAX_MESSAGE_SIZE)

\* A client that ignores the error of a chunk response.
ClientGoesOn_Always(failed) == TRUE

\* if (chunkResponse.error) { throw new Error(chunkResponse.error); }
ClientGoesOn(failed) == ~failed

\* One turn of the upload loop: the chunks go out in index order, each after
\* the response to the one before.
ClientSendsChunk ==
  /\ ClientChunks
  /\ ClientGoesOn(uploadFailed)
  /\ pc[1] = "idle"
  /\ Len(arrived) < ClientTotalChunks
  /\ handleExtractZipChunk(1, Len(arrived), ClientTotalChunks,
                           ChunkOf(clientZip, MAX_MESSAGE_SIZE, Len(arrived)))

ClientRequestsProcess ==
  /\ ClientChunks
  /\ ClientGoesOn(uploadFailed)
  /\ Len(arrived) = ClientTotalChunks
  /\ handleExtractZipProcess(1, 1)

ClientSendsData ==
  /\ ~ClientChunks
  /\ handleExtractZipData(1, clientZip)

\* No GET_RESULT_CHUNK response so far carried an error (the client throws).
PullsSucceeded == \A i \in 1..Len(pulled) : pulled[i].response.type = "chunk"

\* One turn of the loop over response.totalChunks.
ClientPulls ==
  /\ response[1].type = "chunked"
  /\ PullsSucceeded
  /\ Len(pulled) < response[1].totalChunks
  /\ handleGetResultChunk(response[1].resultId, Len(pulled))

\* The client holds the whole result: inline, or every chunk pulled.
ClientDone ==
  \/ response[1].type = "result"
  \/ /\ response[1].type = "chunked"
     /\ PullsSucceeded
     /\ Len(pulled) = response[1].totalChunks

\* chunks.join('') of the pulled chunks.
ClientCombined == Join([i \in 1..Len(pulled) |-> pulled[i].response.chunk])

\* The result the client decodes, in the shape the worker produced it.
ClientResult ==
  IF response[1].type = "result" THEN response[1].result
  ELSE IF response[1].isMultipleVideos
  THEN MultipleResult(response[1].of, JSONparse(ClientCombined))
  ELSE SingleResult(response[1].of, ClientCombined, response[1].mimeType)

InitClient ==
  /\ creatingOffscreen = "null"
  /\ offscreenPort = 1
  /\ pendingTranscode = Null
  /\ offscreenReady = TRUE
  /\ offscreenReadyResolve = Null
  /\ chunkStorage = [t \in TransferIds |-> NoEntry]
  /\ resultStorage = [r \in ResultIds |-> NoEntry]
  /\ chunkedResult = NoEntry
  /\ pc = [j \in Jobs |-> "idle"]
  /\ kind = [j \in Jobs |-> "none"]
  /\ transferId = [j \in Jobs |-> Null]
  /\ zipBase64 = [j \in Jobs |-> <<>>]
  /\ attempts = [j \in Jobs |-> 0]
  /\ response = [j \in Jobs |-> NoResponse]
  /\ jobTimers = <<>>
  /\ readyTimers = {}
  /\ docExists = TRUE
  /\ workerGen = 1
  /\ toWorker = <<>>
  /\ fromWorker = <<>>
  /\ workerJobs = {}
  /\ chunkedInput = NoEntry
  /\ arrived = <<>>
  /\ pulled = <<>>
  /\ clientZip \in Payloads
  /\ codec = NoCodec
  /\ tabMessages = <<>>
  /\ uploadFailed = FALSE

NextClient ==
  \/ ClientSendsData
  \/ ClientSendsChunk
  \/ ClientRequestsProcess
  \/ ClientPulls
  \/ \E i \in 1..NJobs : JobTimeout(i)
  \/ OnResult
  \/ OnResultChunkedStart
  \/ OnResultChunk
  \/ OnResultChunkedEnd
  \/ WorkerStartsJob
  \/ WorkerDataStart
  \/ WorkerDataChunk
  \/ WorkerDataEnd
  \/ \E j \in Jobs : \E result \in EngineResults(j) : WorkerSucceeds(j, result)
  \/ \E j \in Jobs : WorkerFails(j)

SpecClient == InitClient /\ [][NextClient]_vars

\* The response to the next chunk message carries an error: the message did
\* not reach handleExtractZipChunk, which returns no error of its own.
ClientChunkRefused ==
  /\ ClientChunks
  /\ ClientGoesOn(uploadFailed)
  /\ pc[1] = "idle"
  /\ Len(arrived) < ClientTotalChunks
  /\ uploadFailed' = TRUE
  /\ UNCHANGED <<dispatcherVarsButCodec, codec, tabMessages, toWorker, fromWorker,
                 workerJobs, chunkedInput>>

\* The client of SpecClient, whose chunk messages may be refused.
NextUpload ==
  \/ NextClient
  \/ ClientChunkRefused

SpecUpload == InitClient /\ [][NextUpload]_vars

\* ------------------------------------------------- the conversions between
\* bytes and base64 text: uint8ToBase64 and the client's loop, atob and the
\* charCodeAt loops.  Characters are their code units.
MaxBytes == 4

\* The loops' chunk sizes (8192 and 32768), in units of 4096 and 8192 bytes.
convChunkSize == 2
chunkSize == 3
ConvSizes == {convChunkSize, chunkSize}

\* Byte values: zero, ASCII, the first above 0x7f, ones whose groups of six
\* bits reach the last characters of the alphabet.
ByteValues == {0, 65, 128, 251, 255}

RECURSIVE ByteArrays(_)
ByteArrays(n) ==
  IF n = 0 THEN {<<>>}
  ELSE ByteArrays(n - 1)
         \cup {Append(b, v) : b \in {x \in ByteArrays(n - 1) : Len(x) = n - 1},
                              v \in ByteValues}

RECURSIVE BinaryString_Whole(_, _)
\* A loop that stops before a last chunk shorter than size.
BinaryString_Whole(data, size) ==
  IF Len(data) < size THEN <<>>
  ELSE SubSeq(data, 1, size) \o BinaryString_Whole(SubSeq(data, size + 1, Len(data)), size)

RECURSIVE BinaryString(_, _)
\* for (i = 0; i < data.length; i += size)
\*   binary += String.fromCharCode.apply(null, data.subarray(i, i + size))
\* Each byte becomes the character with that code unit.
BinaryString(data, size) ==
  IF data = <<>> THEN <<>>
  ELSE SubSeq(data, 1, Min(size, Len(data)))
         \o BinaryString(SubSeq(data, Min(size, Len(data)) + 1, Len(data)), size)

\* The base64 alphabet A-Z a-z 0-9 + / and the padding character =.
B64Char(v) ==
  IF v < 26 THEN 65 + v
  ELSE IF v < 52 THEN 97 + (v - 26)
  ELSE IF v < 62 THEN 48 + (v - 52)
  ELSE IF v = 62 THEN 43 ELSE 47

Pad == 61

B64Value(c) == CHOOSE v \in 0..63 : B64Char(v) = c

RECURSIVE btoa(_)
\* btoa(binary): three characters (code units below 256) become four.
btoa(binary) ==
  IF binary = <<>> THEN <<>>
  ELSE IF Len(binary) = 1
  THEN LET n == binary[1] * 16
       IN <<B64Char(n \div 64), B64Char(n % 64), Pad, Pad>>
  ELSE IF Len(binary) = 2
  THEN LET n == (binary[1] * 256 + binary[2]) * 4
       IN <<B64Char(n \div 4096), B64Char((n \div 64) % 64), B64Char(n % 64), Pad>>
  ELSE LET n == binary[1] * 65536 + binary[2] * 256 + binary[3]
       IN <<B64Char(n \div 262144), B64Char((n \div 4096) % 64),
            B64Char((n \div 64) % 64), B64Char(n % 64)>>
          \o btoa(SubSeq(binary, 4, Len(binary)))

RECURSIVE atob(_)
\* atob(base64) of a padded text: four characters become three, two or one.
atob(base64) ==
  IF Len(base64) < 4 THEN <<>>
  ELSE LET v(i) == B64Value(base64[i])
           rest == atob(SubSeq(base64, 5, Len(base64)))
       IN IF base64[3] = Pad
          THEN <<(v(1) * 64 + v(2)) \div 16>> \o rest
          ELSE IF base64[4] = Pad
          THEN LET n == (v(1) * 4096 + v(2) * 64 + v(3)) \div 4
               IN <<n \div 256, n % 256>> \o rest
          ELSE LET n == v(1) * 262144 + v(2) * 4096 + v(3) * 64 + v(4)
               IN <<n \div 65536, (n \div 256) % 256, n % 256>> \o rest

\* uint8ToBase64(data), with the loop's chunk size as a parameter.
uint8ToBase64(data, size) == btoa(BinaryString(data, size))

\* bytes[i] = binaryString.charCodeAt(i) for every i
CharCodes(binaryString) == [i \in 1..Len(binaryString) |-> binaryString[i]]

\* A byte array is encoded by one of the two loops, then decoded.
Encode ==
  /\ codec.stage = "bytes"
  /\ codec' = [codec EXCEPT !.stage = "text",
                            !.base64 = uint8ToBase64(codec.uint8Array, codec.size)]
  /\ UNCHANGED <<dispatcherVarsButCodec, tabMessages, uploadFailed, toWorker,
                 fromWorker, workerJobs, chunkedInput>>

Decode ==
  /\ codec.stage = "text"
  /\ codec' = [codec EXCEPT !.stage = "decoded", !.bytes = CharCodes(atob(codec.base64))]
  /\ UNCHANGED <<dispatcherVarsButCodec, tabMessages, uploadFailed, toWorker,
                 fromWorker, workerJobs, chunkedInput>>

InitCodec ==
  /\ creatingOffscreen = "null"
  /\ offscreenPort = Null
  /\ pendingTranscode = Null
  /\ offscreenReady = FALSE
  /\ offscreenReadyResolve = Null
  /\ chunkStorage = [t \in TransferIds |-> NoEntry]
  /\ resultStorage = [r \in ResultIds |-> NoEntry]
  /\ chunkedResult = NoEntry
  /\ pc = [j \in Jobs |-> "idle"]
  /\ kind = [j \in Jobs |-> "none"]
  /\ transferId = [j \in Jobs |-> Null]
  /\ zipBase64 = [j \in Jobs |-> <<>>]
  /\ attempts = [j \in Jobs |-> 0]
  /\ response = [j \in Jobs |-> NoResponse]
  /\ jobTimers = <<>>
  /\ readyTimers = {}
  /\ docExists = FALSE
  /\ workerGen = 0
  /\ toWorker = <<>>
  /\ fromWorker = <<>>
  /\ workerJobs = {}
  /\ chunkedInput = NoEntry
  /\ arrived = <<>>
  /\ pulled = <<>>
  /\ clientZip = <<>>
  /\ \E data \in ByteArrays(MaxBytes), size \in ConvSizes :
       codec = [stage |-> "bytes", uint8Array |-> data, size |-> size,
                base64 |-> <<>>, bytes |-> <<>>]
  /\ tabMessages = <<>>
  /\ uploadFailed = FALSE

NextCodec ==
  \/ Encode
  \/ Decode

SpecCodec == InitCodec /\ [][NextCodec]_vars

\* ------------------------------------------------- chunk messages in any
\* order: the client of SpecClient sends the chunks of its transfer in any
\* order, each index once, and the chunk messages of one sequence on the port
\* may overtake one another between its start and its end.
Swap(queue, i) ==
  [k \in 1..Len(queue) |->
     IF k = i THEN queue[i + 1] ELSE IF k = i + 1 THEN queue[i] ELSE queue[k]]

\* The chunk indices of transfer 1 handled so far.
ArrivedIndices == {arrived[i].chunkIndex : i \in 1..Len(arrived)}

ClientSendsAnyChunk ==
  /\ ClientChunks
  /\ pc[1] = "idle"
  /\ \E i \in (0..(ClientTotalChunks - 1)) \ ArrivedIndices :
       handleExtractZipChunk(1, i, ClientTotalChunks,
                             ChunkOf(clientZip, MAX_MESSAGE_SIZE, i))

\* Two neighbouring EXTRACT_ZIP_DATA_CHUNK messages change places.
InputChunksOvertake ==
  /\ \E i \in 1..(Len(toWorker) - 1) :
       /\ toWorker[i].type = "EXTRACT_ZIP_DATA_CHUNK"
       /\ toWorker[i + 1].type = "EXTRACT_ZIP_DATA_CHUNK"
       /\ toWorker' = Swap(toWorker, i)
  /\ UNCHANGED <<dispatcherVars, fromWorker, workerJobs, chunkedInput>>

\* Two neighbouring RESULT_CHUNK messages change places.
ResultChunksOvertake ==
  /\ \E i \in 1..(Len(fromWorker) - 1) :
       /\ fromWorker[i].type = "RESULT_CHUNK"
       /\ fromWorker[i + 1].type = "RESULT_CHUNK"
       /\ fromWorker' = Swap(fromWorker, i)
  /\ UNCHANGED <<dispatcherVars, toWorker, workerJobs, chunkedInput>>

NextReorder ==
  \/ ClientSendsData
  \/ ClientSendsAnyChunk
  \/ ClientRequestsProcess
  \/ InputChunksOvertake
  \/ ResultChunksOvertake
  \/ OnResult
  \/ OnResultChunkedStart
  \/ OnResultChunk
  \/ OnResultChunkedEnd
  \/ WorkerStartsJob
  \/ WorkerDataStart
  \/ WorkerDataChunk
  \/ WorkerDataEnd
  \/ \E j \in Jobs : \E result \in EngineResults(j) : WorkerSucceeds(j, result)

SpecReorder == InitClient /\ [][NextReorder]_vars

\* ------------------------------------------------- the connection, with an
\* offscreen document that may be destroyed while it starts up.
\* The document is destroyed after chrome.runtime.connect and before its
\* port.postMessage({ type: 'READY' }): the dispatcher sees the port connect
\* and disconnect, and no READY.
DocumentLost ==
  /\ offscreenPort # Null
  /\ docExists
  /\ fromWorker = <<[type |-> "READY", job |-> Null]>>
  /\ offscreenPort' = Disconnected(offscreenPort)
  /\ docExists' = FALSE
  /\ fromWorker' = <<>>
  /\ toWorker' = <<>>
  /\ workerJobs' = {}
  /\ chunkedInput' = NoEntry
  /\ UNCHANGED <<creatingOffscreen, pendingTranscode, offscreenReady,
                 offscreenReadyResolve, chunkStorage, resultStorage, chunkedResult,
                 pc, kind, transferId, zipBase64, attempts, response, jobTimers,
                 readyTimers, workerGen, arrived, pulled, clientZip, codec, tabMessages, uploadFailed>>

NextCrash ==
  \/ \E j \in Jobs : handleTranscode(j)
  \/ \E j \in Jobs : GetContextsResolved(j)
  \/ HostCreatesDocument
  \/ CreateDocumentResolved
  \/ CreateDocumentRejected
  \/ \E j \in Jobs : PollTick(j)
  \/ \E j \in Jobs : ReadyTimeout(j)
  \/ onConnect
  \/ onDisconnect
  \/ DocumentLost
  \/ OnReady

SpecCrash == Init /\ [][NextCrash]_vars

\* ------------------------------------------------- progress reports: jobs
\* that come one at a time on the dispatcher with a live worker, which
\* reports the progress of the jobs it is running, a job that has timed out
\* included.
MaxProgress == 2

\* sender.tab.id of request j: tab identifiers are positive.
TabOf(j) == j

\* reportProgress(status, progress): if (port) port.postMessage({ type: 'PROGRESS', ... })
ProgressMessage(j) == [type |-> "PROGRESS", job |-> j, tabId |-> TabOf(j), progress |-> 0]

ProgressInFlight == Cardinality({i \in 1..Len(fromWorker) : fromWorker[i].type = "PROGRESS"})

WorkerReportsProgress(j) ==
  /\ j \in workerJobs
  /\ offscreenPort # Null
  /\ Len(tabMessages) + ProgressInFlight < MaxProgress
  /\ fromWorker' = Append(fromWorker, ProgressMessage(j))
  /\ UNCHANGED <<dispatcherVars, toWorker, workerJobs, chunkedInput>>

\* A listener that relays progress only while a job is pending.
ProgressBody_WhenPending(sent, pending, message) ==
  IF message.tabId # 0 /\ pending # Null
  THEN Append(sent, [tabId |-> message.tabId, type |-> "TRANSCODE_PROGRESS",
                     progress |-> message.progress, of |-> message.job,
                     pending |-> pending])
  ELSE sent

\* if (message.type === 'PROGRESS' && message.tabId) chrome.tabs.sendMessage(...)
\* The fields of and pending are ghosts: the job reported on, and the slot
\* when the message was relayed.
ProgressBody(sent, pending, message) ==
  IF message.tabId # 0
  THEN Append(sent, [tabId |-> message.tabId, type |-> "TRANSCODE_PROGRESS",
                     progress |-> message.progress, of |-> message.job,
                     pending |-> pending])
  ELSE sent

OnProgress ==
  /\ Delivered("PROGRESS")
  /\ fromWorker' = Tail(fromWorker)
  /\ tabMessages' = ProgressBody(tabMessages, pendingTranscode, Head(fromWorker))
  /\ UNCHANGED <<dispatcherVarsButCodec, codec, uploadFailed, toWorker, workerJobs,
                 chunkedInput>>

NextProgress ==
  \/ \E j \in Jobs : NoneAwaiting /\ handleTranscode(j)
  \/ \E i \in 1..NJobs : JobTimeout(i)
  \/ OnProgress
  \/ OnResult
  \/ OnResultChunkedStart
  \/ OnResultChunk
  \/ OnResultChunkedEnd
  \/ WorkerStartsJob
  \/ \E j \in Jobs : WorkerReportsProgress(j)
  \/ \E j \in Jobs : \E result \in EngineSingles(j) : WorkerSucceeds(j, result)

SpecProgress == InitLive /\ [][NextProgress]_vars

\* The engine's outputs for the client's job, with a single video of twice
\* the ceiling: a stored string that ends on a chunk boundary.
PulledResults(j) ==
  EngineResults(j) \cup {EngineResult(j, 2 * MAX_MESSAGE_SIZE)}

\* The client of SpecClient, over the results of PulledResults.
NextDrain ==
  \/ ClientSendsData
  \/ ClientSendsChunk
  \/ ClientRequestsProcess
  \/ ClientPulls
  \/ \E i \in 1..NJobs : JobTimeout(i)
  \/ OnResult
  \/ OnResultChunkedStart
  \/ OnResultChunk
  \/ OnResultChunkedEnd
  \/ WorkerStartsJob
  \/ WorkerDataStart
  \/ WorkerDataChunk
  \/ WorkerDataEnd
  \/ \E j \in Jobs : \E result \in PulledResults(j) : WorkerSucceeds(j, result)
  \/ \E j \in Jobs : WorkerFails(j)

SpecDrain == InitClient /\ [][NextDrain]_vars

\* ------------------------------------------------- refused process requests:
\* chunk messages and process requests from any sender on the dispatcher
\* with a live worker, next to transcode jobs that occupy the pending slot.
NextRefuse ==
  \/ \E j \in Jobs : handleTranscode(j)
  \/ \E t \in TransferIds, n \in 1..MaxTotalChunks :
       \E i \in 0..(n - 1), len \in 1..MAX_MESSAGE_SIZE :
         handleExtractZipChunk(t, i, n, Piece(i, len))
  \/ \E j \in Jobs, t \in TransferIds : handleExtractZipProcess(j, t)
  \/ \E i \in 1..NJobs : JobTimeout(i)

\* A live worker and nothing staged.
InitRefuse == InitClient /\ clientZip = <<>>

SpecRefuse == InitRefuse /\ [][NextRefuse]_vars

\* ------------------------------------------------- the worker alone: jobs of
\* every kind, overlapping, posted to a live worker whose engine yields
\* results of either shape or fails.  The dispatcher's port listener is left
\* out, so that fromWorker holds everything the worker has posted, in order.
NextWorker ==
  \/ \E j \in Jobs : handleTranscode(j)
  \/ \E j \in Jobs : handleExtractZip(j)
  \/ \E j \in Jobs, zip \in DataInputs : handleExtractZipData(j, zip)
  \/ \E j \in Jobs, t \in TransferIds : handleExtractZipProcess(j, t)
  \/ WorkerStartsJob
  \/ WorkerDataStart
  \/ WorkerDataChunk
  \/ WorkerDataEnd
  \/ \E j \in Jobs : \E result \in EngineResults(j) : WorkerSucceeds(j, result)
  \/ \E j \in Jobs : WorkerFails(j)

SpecWorker == InitLive /\ [][NextWorker]_vars

\* The worker's listener runs on every message delivered to it, and the
\* promise of every job it started is settled: the engine returns or throws.
FairWorker ==
  /\ SpecWorker
  /\ WF_vars(WorkerStartsJob)
  /\ WF_vars(WorkerDataStart)
  /\ WF_vars(WorkerDataChunk)
  /\ WF_vars(WorkerDataEnd)
  /\ \A j \in Jobs :
       WF_vars((\E result \in EngineResults(j) : WorkerSucceeds(j, result))
                 \/ WorkerFails(j))

\* ===================================================================
\* Properties
\* ===================================================================
Range(seq) == {seq[i] : i \in 1..Len(seq)}

Answered(j) == response[j] # NoResponse
GotResult(r) == r.type \in {"result", "chunked"}
IsTimeout(r) ==
  r.type = "error" /\ r.error \in {"Transcoding timed out", "ZIP extraction timed out"}

\* The deadline timer armed by job j fires in this step.
TimerFires(j) == j \in Range(jobTimers) /\ j \notin Range(jobTimers')

\* The port's onMessage listener handles one worker message in this step.
MessageHandled == fromWorker # <<>> /\ fromWorker' = Tail(fromWorker)

\* A job-start message is posted to the worker in this step.
JobPosted == Len(toWorker') > Len(toWorker)

\* Job j is the only request the dispatcher has received.
Lone(j) == pc[j] # "idle" /\ \A k \in Jobs \ {j} : pc[k] = "idle"

\* Job j awaits its result and the pending slot does not name it.
Orphaned(j) == pc[j] = "awaitResult" /\ pendingTranscode # j

\* C1: a caller that is resolved is resolved with the result the worker
\* produced for its own job, never with another job's result.
C1_SingleSlotHandoff ==
  \A j \in Jobs : GotResult(response[j]) => response[j].of = j

\* C2: every job request the dispatcher has received eventually gets a
\* terminal response, under the fairness of FairJobs.
C2_EveryRequestAnswered ==
  \A j \in Jobs : (pc[j] # "idle") ~> (pc[j] = "done" /\ Answered(j))

\* C3: when the deadline of a lone, still pending job expires, its caller
\* is failed with a timeout error and the slot is empty; a worker message
\* handled after that changes neither the slot nor the caller's outcome;
\* and a timer that fires on an empty slot changes nothing but itself.
C3_Step ==
  /\ \A j \in Jobs :
       (Lone(j) /\ TimerFires(j) /\ pendingTranscode = j) =>
         /\ IsTimeout(response'[j]) /\ response'[j].by = j
         /\ pc'[j] = "done"
         /\ pendingTranscode' = Null
  /\ \A j \in Jobs :
       (Lone(j) /\ IsTimeout(response[j]) /\ MessageHandled) =>
         /\ pendingTranscode = Null /\ pendingTranscode' = Null
         /\ response' = response /\ pc' = pc
  /\ \A j \in Jobs :
       (TimerFires(j) /\ pendingTranscode = Null) =>
         UNCHANGED <<pendingTranscode, response, pc, resultStorage, chunkedResult,
                     toWorker, fromWorker, chunkStorage>>

C3_LoneJobTimeout == [][C3_Step]_vars

\* The lone job timed out, the worker answered afterwards, and the answer
\* has been handled.
C3_Witness ==
  /\ Lone(1) /\ IsTimeout(response[1]) /\ pendingTranscode = Null
  /\ toWorker = <<>> /\ workerJobs = {} /\ fromWorker = <<>>

\* C4: a job is failed with a timeout error only by the deadline timer
\* armed at its own submission.
C4_TimeoutAttribution ==
  \A j \in Jobs : IsTimeout(response[j]) => response[j].by = j

\* C5: a job that is dispatched takes the pending slot, whoever held it;
\* and a job that awaits its result while the slot does not name it is not
\* resolved by a worker message.
C5_Step ==
  /\ \A j \in Jobs :
       (pc[j] # "awaitResult" /\ pc'[j] = "awaitResult") => pendingTranscode' = j
  /\ \A k \in Jobs :
       (Orphaned(k) /\ MessageHandled) => ~Answered(k) /\ response'[k] = response[k]

C5_LastSubmissionWins == [][C5_Step]_vars

\* Job 2 was dispatched over the pending job 1, the worker answered both
\* jobs, and job 1 is still unanswered.
C5_Witness ==
  /\ pc[1] = "awaitResult" /\ GotResult(response[2])
  /\ toWorker = <<>> /\ workerJobs = {} /\ fromWorker = <<>>

\* C6: when the deadline timer armed by an orphaned job fires, that job's
\* caller receives a timeout failure.
C6_Step ==
  \A j \in Jobs : (Orphaned(j) /\ TimerFires(j)) => IsTimeout(response'[j])

C6_OrphanSettledByOwnTimeout == [][C6_Step]_vars

\* C7: no job-start message is posted to the worker while a job is pending.
C7_SerializedSubmission == [][JobPosted => pendingTranscode = Null]_vars

\* The request of job j is an EXTRACT_ZIP_PROCESS handled in this step.
ProcessHandled(j) == pc[j] = "idle" /\ kind'[j] = "EXTRACT_ZIP_PROCESS"

\* The staging entry that request names, as the handler finds it.
Named(j) == chunkStorage[transferId'[j]]

\* The handler got past both checks and joined the chunks.
Reassembled(j) == pc'[j] # "done"

AllSlotsFilled(storage) ==
  \A i \in 1..storage.totalChunks :
    i <= Len(storage.chunks) /\ storage.chunks[i] # Hole

RECURSIVE InIndexOrder(_, _)
\* Slots 0..n-1 of the entry, concatenated by index.
InIndexOrder(storage, n) ==
  IF n = 0 THEN <<>> ELSE InIndexOrder(storage, n - 1) \o storage.chunks[n]

\* C8: a process request for a transfer with fewer chunks received than
\* declared fails with 'Incomplete transfer'; one for a transfer with
\* received = totalChunks and every slot filled passes the gate, the
\* handler holds the slots concatenated by index, and the entry is removed.
C8_Step ==
  \A j \in Jobs :
    (ProcessHandled(j) /\ TransferFound(Named(j))) =>
      /\ Named(j).received < Named(j).totalChunks =>
           response'[j] = ErrorResponse("Incomplete transfer", Null)
      /\ (Named(j).received = Named(j).totalChunks /\ AllSlotsFilled(Named(j))) =>
           /\ Reassembled(j)
           /\ zipBase64'[j] = InIndexOrder(Named(j), Named(j).totalChunks)
           /\ chunkStorage'[transferId'[j]] = NoEntry

C8_CompletenessGate == [][C8_Step]_vars

\* Chunk 1 arrived before chunk 0; the process request sent in between was
\* refused as incomplete, the one sent afterwards passed the gate.
C8_Witness ==
  /\ Len(arrived) = 2 /\ arrived[1].chunkIndex = 1 /\ arrived[2].chunkIndex = 0
  /\ response[1] = ErrorResponse("Incomplete transfer", Null)
  /\ pc[2] = "getContexts" /\ Len(zipBase64[2]) > MAX_MESSAGE_SIZE

\* C9: a staged transfer's received count never exceeds its declared total.
C9_ReceivedAtMostTotal ==
  \A t \in TransferIds :
    TransferFound(chunkStorage[t]) =>
      chunkStorage[t].received <= chunkStorage[t].totalChunks

\* C10: whenever a process request passes the gate, every slot
\* 0..totalChunks-1 of the transfer holds a chunk.
C10_Step ==
  \A j \in Jobs :
    (ProcessHandled(j) /\ Reassembled(j)) => AllSlotsFilled(Named(j))

C10_ReassembledOnlyWhenComplete == [][C10_Step]_vars

\* The messages the worker posts in this step.
Posted == SubSeq(fromWorker', Len(fromWorker) + 1, Len(fromWorker'))

WorkerPosts == Len(fromWorker') > Len(fromWorker)

\* The text carried by the chunk messages of a start/chunk/end sequence.
CarriedText(msgs) == Join([i \in 1..(Len(msgs) - 2) |-> msgs[i + 1].chunk])

\* The encoded size of a result read back from the text it was chunked as.
SizeOfText(text, isMultipleVideos) ==
  IF isMultipleVideos THEN SumLen(JSONparse(text)) ELSE Len(text)

\* The handler of job j returns a result (inline or stored) in this step.
ResultReturned(j) == response[j] = NoResponse /\ GotResult(response'[j])

\* Job j's handler has a result threshold (the stored-result path).
HasThreshold(j) == kind'[j] \in {"EXTRACT_ZIP_DATA", "EXTRACT_ZIP_PROCESS"}

\* C11: a result of encoded size at most the ceiling is sent inline and a
\* larger one chunked, both by sendResult and by the handlers that store
\* results; the declared totalChunks is ceil(length of the chunked text /
\* ceiling).  Results at the ceiling and one unit over are produced.
C11_Step ==
  /\ (WorkerPosts /\ Posted[1].type = "RESULT" /\ Posted[1].error = "") =>
       TotalSize(Posted[1].result) <= MAX_MESSAGE_SIZE
  /\ (WorkerPosts /\ Posted[1].type = "RESULT_CHUNKED_START") =>
       /\ SizeOfText(CarriedText(Posted), Posted[1].isMultipleVideos) > MAX_MESSAGE_SIZE
       /\ Posted[1].totalChunks = CeilDiv(Len(CarriedText(Posted)), MAX_MESSAGE_SIZE)
       /\ Len(Posted) = Posted[1].totalChunks + 2
  /\ \A j \in Jobs :
       (HasThreshold(j) /\ ResultReturned(j)) =>
         IF response'[j].type = "result"
         THEN TotalSize(response'[j].result) <= MAX_MESSAGE_SIZE
         ELSE LET stored == resultStorage'[response'[j].resultId]
              IN /\ stored # NoEntry
                 /\ SizeOfText(StoredData(stored), stored.isMultipleVideos)
                      > MAX_MESSAGE_SIZE
                 /\ response'[j].totalChunks =
                      CeilDiv(Len(StoredData(stored)), MAX_MESSAGE_SIZE)

C11_ThresholdBoundary == [][C11_Step]_vars

\* C12: no response of the dispatcher carries inline a result whose encoded
\* size exceeds the ceiling, whatever the job kind and the result's shape.
C12_NoOversizedInline ==
  \A j \in Jobs :
    response[j].type = "result" => TotalSize(response[j].result) <= MAX_MESSAGE_SIZE

\* Chunk sizes the round trip is tried with, below and above the payloads.
ChunkSizes == 1..(MaxTotalChunks * MAX_MESSAGE_SIZE + 1)

\* data cut into chunks of size code units, by offset.
ChunksOf(data, size) ==
  [i \in 1..CeilDiv(Len(data), size) |-> ChunkOf(data, size, i - 1)]

\* The worker's listener is about to hand an uploaded archive to the engine.
WorkerGetsWhole == toWorker # <<>> /\ Head(toWorker).type = "EXTRACT_ZIP_DATA"
WorkerGetsChunked ==
  /\ toWorker # <<>>
  /\ Head(toWorker).type = "EXTRACT_ZIP_DATA_END"
  /\ chunkedInput # NoEntry

\* C13: cutting a payload into chunks by offset and joining them by index
\* gives back the payload, for every chunk size; and on each hop: the
\* archive the dispatcher reassembles and the one the worker reassembles are
\* the client's, the result the dispatcher reassembles and the one the
\* client pulls and joins are the worker's.
C13_ChunkingRoundTrip ==
  /\ \A size \in ChunkSizes : Join(ChunksOf(clientZip, size)) = clientZip
  /\ (kind[1] = "EXTRACT_ZIP_PROCESS" /\ pc[1] = "awaitResult") =>
       zipBase64[1] = clientZip
  /\ WorkerGetsWhole => Head(toWorker).zipBase64 = clientZip
  /\ WorkerGetsChunked => Join(chunkedInput.chunks) = clientZip
  /\ \A r \in ResultIds :
       resultStorage[r] # NoEntry =>
         \E result \in EngineResults(1) :
           resultStorage[r] \in {StoredSingle(result), StoredMultiple(result)}
  /\ ClientDone => ClientResult \in EngineResults(1)

\* The client uploaded an archive in chunks, the worker reassembled it, and
\* the client pulled a multi-video result chunk by chunk.
C13_Witness ==
  /\ ClientChunks /\ ClientDone /\ Len(pulled) >= 2
  /\ response[1].type = "chunked" /\ response[1].isMultipleVideos
  /\ ClientResult \in EngineResults(1)

\* A GET_RESULT_CHUNK request is handled in this step; the request and its
\* response.
PullHandled == Len(pulled') = Len(pulled) + 1
LastPull == pulled'[Len(pulled')]

NotFound(what) == ErrorResponse(what, Null)

\* The i-th GET_RESULT_CHUNK handled returned the final chunk of its result.
PulledLast(i) == pulled[i].response.type = "chunk" /\ pulled[i].response.isLast

\* C14: once a pull has returned the final chunk of a stored result, the
\* result is no longer in the result map, and every later GET_RESULT_CHUNK
\* for that identifier fails with 'Result not found'.
C14_StoredResultDrain ==
  \A i \in 1..Len(pulled) :
    PulledLast(i) =>
      /\ resultStorage[pulled[i].resultId] = NoEntry
      /\ \A k \in (i + 1)..Len(pulled) :
           pulled[k].resultId = pulled[i].resultId =>
             pulled[k].response = NotFound("Result not found")

\* A stored result was drained by a pull of its final chunk, and the pull
\* after that, for the same identifier, was refused.
C14_Witness ==
  /\ Len(pulled) = 2 /\ PulledLast(1)
  /\ pulled[1].response.chunk # <<>>
  /\ pulled[2].resultId = pulled[1].resultId
  /\ pulled[2].response = NotFound("Result not found")

\* An EXTRACT_ZIP_CHUNK message is handled in this step; the message.
ChunkHandled == Len(arrived') = Len(arrived) + 1
LastChunk == arrived'[Len(arrived')]

\* C15: a staging entry exists only for identifiers an EXTRACT_ZIP_CHUNK
\* message carried, and exists as soon as the first one is handled; the
\* process request that reassembles a transfer removes its entry; and a
\* process request that finds no entry fails with 'Transfer not found'.
C15_Step ==
  /\ \A t \in TransferIds :
       TransferFound(chunkStorage[t]) =>
         \E i \in 1..Len(arrived) : arrived[i].transferId = t
  /\ ChunkHandled => TransferFound(chunkStorage'[LastChunk.transferId])
  /\ \A j \in Jobs :
       (ProcessHandled(j) /\ Reassembled(j)) =>
         ~TransferFound(chunkStorage'[transferId'[j]])
  /\ \A j \in Jobs :
       (ProcessHandled(j) /\ ~TransferFound(Named(j))) =>
         response'[j] = NotFound("Transfer not found")

C15_TransferLifecycle == [][C15_Step]_vars

\* The first process request reassembled the transfer; the second one, for
\* the same identifier, was refused.
C15_Witness ==
  /\ kind[1] = "EXTRACT_ZIP_PROCESS" /\ pc[1] = "getContexts"
  /\ transferId[2] = transferId[1]
  /\ response[2] = NotFound("Transfer not found")

\* What a request for an unknown identifier must leave alone.
Untouched ==
  UNCHANGED <<chunkStorage, resultStorage, pendingTranscode, offscreenPort,
              toWorker, chunkedResult, jobTimers>>

\* C16: a process request for an identifier not in the staging map and a
\* GET_RESULT_CHUNK request for an identifier not in the result map are
\* answered with a not-found error; the staging map, the result map, the
\* pending slot and the connection stay as they were and nothing is posted
\* to the worker.
C16_Step ==
  /\ \A j \in Jobs :
       (ProcessHandled(j) /\ ~TransferFound(Named(j))) =>
         /\ response'[j] = NotFound("Transfer not found")
         /\ pc'[j] = "done"
         /\ Untouched
  /\ (PullHandled /\ resultStorage[LastPull.resultId] = NoEntry) =>
       /\ LastPull.response = NotFound("Result not found")
       /\ Untouched

C16_UnknownIdentifiers == [][C16_Step]_vars

\* Both kinds of request were refused while a job was pending.
C16_Witness ==
  /\ pendingTranscode = 1 /\ pc[1] = "awaitResult"
  /\ response[2] = NotFound("Transfer not found")
  /\ Len(pulled) > 0 /\ pulled[1].response = NotFound("Result not found")

\* The callers whose createDocument call is in flight.
Creating == {j \in Jobs : pc[j] = "creating"}

\* Job j calls createDocument in this step.
CreationStarts(j) == pc[j] # "creating" /\ pc'[j] = "creating"

\* C17: at most one createDocument call is in flight; a call is made only
\* when no offscreen document exists and none is being created; a caller
\* that finds no document while one is being created awaits that creation.
C17_Step ==
  /\ Cardinality(Creating) <= 1
  /\ \A j \in Jobs :
       CreationStarts(j) =>
         ~docExists /\ Creating = {} /\ creatingOffscreen = "null"
  /\ \A j \in Jobs :
       (pc[j] = "getContexts" /\ pc'[j] # "getContexts" /\ ~docExists /\ Creating # {}) =>
         pc'[j] = "awaitCreating"

C17_SingleCreationInFlight == [][C17_Step]_vars

\* A second caller awaits the creation the first one started.
C17_Witness ==
  /\ pc[1] = "creating" /\ pc[2] = "awaitCreating" /\ creatingOffscreen = "pending"

\* The callers inside the readiness wait of ensureOffscreenDocument.
Waiting == {j \in Jobs : pc[j] = "waitReady"}

\* The readiness timer armed by job j fires in this step.
ReadyTimerFires(j) == j \in readyTimers /\ j \notin readyTimers'

\* The READY message is handled in this step.
ReadyHandled == ~offscreenReady /\ offscreenReady'

\* C18: every caller in the readiness wait leaves it when READY is handled,
\* and a caller still waiting when its own 5 s timer fires leaves it then.
C18_Step ==
  /\ ReadyHandled => \A j \in Waiting : pc'[j] # "waitReady"
  /\ \A j \in Waiting : ReadyTimerFires(j) => pc'[j] # "waitReady"

C18_BoundedReadinessWait == [][C18_Step]_vars

\* The offscreen document goes away in this step.
DocumentCloses == docExists /\ ~docExists'

\* The request of job j is received in this step.
RequestReceived(j) == pc[j] = "idle" /\ pc'[j] # "idle"

\* chrome.runtime.getContexts answers job j in this step.
ContextsAnswered(j) == pc[j] = "getContexts" /\ pc'[j] # "getContexts"

\* C19: when the offscreen document goes away the held port becomes null;
\* a job request received while no port is held posts nothing and starts
\* with the existence check; when that finds no document, the caller
\* creates one, or awaits the creation in flight, and when it finds one the
\* caller polls for the port; and whatever is posted to the worker is
\* posted on the port of the document that exists, never on an earlier one.
\* (A creation that was rejected earlier is not retried: the caller fails.)
C19_Step ==
  /\ DocumentCloses => offscreenPort' = Null
  /\ \A j \in Jobs :
       (RequestReceived(j) /\ offscreenPort = Null) =>
         pc'[j] = "getContexts" /\ toWorker' = toWorker
  /\ \A j \in Jobs :
       (ContextsAnswered(j) /\ ~docExists /\ creatingOffscreen # "rejected") =>
         pc'[j] \in {"creating", "awaitCreating"}
  /\ \A j \in Jobs :
       (ContextsAnswered(j) /\ docExists /\ offscreenPort = Null) =>
         pc'[j] = "poll" /\ attempts'[j] = 0
  /\ JobPosted => docExists /\ offscreenPort = workerGen /\ offscreenPort' = workerGen

C19_RecoveryAfterDisconnect == [][C19_Step]_vars

\* Job 1 was dispatched on the first document's port; that document went
\* away; job 2 went through the creation of a second document and was
\* dispatched on the second port.
C19_Witness ==
  /\ workerGen = 2 /\ offscreenPort = 2
  /\ pc[1] = "awaitResult" /\ pc[2] = "awaitResult"
  /\ toWorker = <<[type |-> "TRANSCODE", job |-> 2]>>

\* The messages the dispatcher posts to the worker in this step.
PostedToWorker == SubSeq(toWorker', Len(toWorker) + 1, Len(toWorker'))

\* The encoded archive text an upload message carries.
UploadText(m) ==
  IF m.type = "EXTRACT_ZIP_DATA" THEN m.zipBase64
  ELSE IF m.type = "EXTRACT_ZIP_DATA_CHUNK" THEN m.chunk
  ELSE <<>>

\* The chunk the EXTRACT_ZIP_CHUNK message handled in this step carried.
ChunkStaged == chunkStorage'[LastChunk.transferId].chunks[LastChunk.chunkIndex + 1]

\* C20: the client sends its archive whole exactly when it is at most the
\* ceiling long and in chunks of at most the ceiling otherwise; the
\* dispatcher forwards an archive whole exactly when it is at most the
\* ceiling long and as start/chunk/end otherwise; no upload message on
\* either hop carries more than the ceiling.
C20_Step ==
  /\ (RequestReceived(1) /\ kind'[1] = "EXTRACT_ZIP_DATA") =>
       Len(clientZip) <= MAX_MESSAGE_SIZE /\ zipBase64'[1] = clientZip
  /\ (RequestReceived(1) /\ kind'[1] = "EXTRACT_ZIP_PROCESS") =>
       Len(clientZip) > MAX_MESSAGE_SIZE
  /\ ChunkHandled =>
       Len(clientZip) > MAX_MESSAGE_SIZE /\ Len(ChunkStaged) <= MAX_MESSAGE_SIZE
  /\ JobPosted =>
       /\ (PostedToWorker[1].type = "EXTRACT_ZIP_DATA")
            <=> (Len(zipBase64'[PostedToWorker[1].job]) <= MAX_MESSAGE_SIZE)
       /\ (PostedToWorker[1].type = "EXTRACT_ZIP_DATA_START")
            <=> (Len(zipBase64'[PostedToWorker[1].job]) > MAX_MESSAGE_SIZE)
       /\ \A i \in 1..Len(PostedToWorker) :
            Len(UploadText(PostedToWorker[i])) <= MAX_MESSAGE_SIZE

C20_UploadRespectsCeiling == [][C20_Step]_vars

\* The client uploaded an archive longer than the ceiling in chunks, and the
\* worker has put together what the dispatcher forwarded in chunks.
C20_Witness ==
  /\ ClientChunks /\ Len(arrived) = ClientTotalChunks
  /\ pc[1] = "awaitResult" /\ workerJobs = {1} /\ toWorker = <<>>

\* C21: decoding the base64 text produced by encoding a byte sequence returns
\* the same byte sequence, whatever the bytes (0x00 and values from 0x80 up
\* included) and whichever chunk size the conversion loop used.
C21_EncodeDecodeRoundTrip ==
  codec.stage = "decoded" => codec.bytes = codec.uint8Array

\* A byte array with a zero byte and a byte above 0x7f, longer than both chunk
\* sizes and not a multiple of three bytes long, was encoded and decoded.
C21_Witness ==
  /\ codec.stage = "decoded"
  /\ Len(codec.uint8Array) = MaxBytes
  /\ \E i, k \in 1..MaxBytes : codec.uint8Array[i] = 0 /\ codec.uint8Array[k] >= 128
  /\ Pad \in Range(codec.base64)
  /\ codec.bytes = codec.uint8Array

\* The string sendResult cuts into chunks for an oversized result.
SentText(result) ==
  IF result.multiple THEN JSONstringify(result.videos) ELSE result.base64

\* C22: when every chunk index of a payload has arrived exactly once, in any
\* order, the staging joins to the original payload: the dispatcher's upload
\* staging at the process request, the worker's input staging and the
\* dispatcher's result staging when the end message is about to be handled.
C22_OrderIndependentReassembly ==
  /\ kind[1] = "EXTRACT_ZIP_PROCESS" => zipBase64[1] = clientZip
  /\ (WorkerReceives("EXTRACT_ZIP_DATA_END") /\ chunkedInput # NoEntry) =>
       Join(chunkedInput.chunks) = clientZip
  /\ (Delivered("RESULT_CHUNKED_END") /\ chunkedResult # NoEntry) =>
       Join(chunkedResult.chunks) = SentText(Head(fromWorker).sent)

\* The last chunk of the upload arrived first and the transfer was joined to
\* the archive; the chunks of its result are staged and the end message is next.
C22_Witness ==
  /\ arrived # <<>> /\ arrived[1].chunkIndex = ClientTotalChunks - 1
  /\ ClientTotalChunks >= 2
  /\ kind[1] = "EXTRACT_ZIP_PROCESS" /\ zipBase64[1] = clientZip
  /\ Delivered("RESULT_CHUNKED_END") /\ chunkedResult # NoEntry
  /\ Len(chunkedResult.chunks) >= 2
  /\ Join(chunkedResult.chunks) = SentText(Head(fromWorker).sent)

\* Job j returns from the readiness wait in this step, to the point where its
\* handler creates the result promise and posts the job.
LeavesReadyWait(j) == pc[j] = "waitReady" /\ pc'[j] # "waitReady"

\* C23: a job-start message is posted only while the connection handle is
\* present; and a request that reaches the dispatch with no handle fails and
\* leaves neither the pending slot naming it nor its deadline timer armed.
C23_Step ==
  /\ JobPosted => offscreenPort # Null
  /\ \A j \in Jobs :
       (LeavesReadyWait(j) /\ offscreenPort = Null) =>
         /\ response'[j].type = "error" /\ pc'[j] = "done"
         /\ pendingTranscode' # j
         /\ j \notin Range(jobTimers')

C23_DispatchOnLiveConnection == [][C23_Step]_vars

\* The 100 ms timer of job j's poll loop fires in this step.
Polled(j) == pc[j] = "poll" /\ attempts'[j] = attempts[j] + 1

DidNotConnect == ErrorResponse("Offscreen document did not connect", Null)

\* C24: a caller polling for a handle that does not appear goes on polling
\* up to its 50th attempt and gives up at the 50th; it is answered with the
\* creation error, and that step posts nothing to the worker and changes
\* neither the pending slot nor the deadline timers.
C24_Step ==
  \A j \in Jobs :
    (Polled(j) /\ offscreenPort = Null) =>
      IF attempts'[j] < 50
      THEN pc'[j] = "poll" /\ ~Answered(j)
      ELSE /\ attempts'[j] = 50
           /\ pc'[j] = "done" /\ response'[j] = DidNotConnect
           /\ ~JobPosted
           /\ pendingTranscode' = pendingTranscode /\ pendingTranscode' # j
           /\ jobTimers' = jobTimers /\ j \notin Range(jobTimers')

C24_BoundedHandlePoll == [][C24_Step]_vars

\* Job 2 gave up at its 50th attempt, with job 1 pending from before the
\* disconnect: the slot and the timers hold job 1 alone.
C24_Witness ==
  /\ response[2] = DidNotConnect /\ attempts[2] = 50
  /\ pc[1] = "awaitResult" /\ pendingTranscode = 1 /\ jobTimers = <<1>>
  /\ toWorker = <<>>

\* ensureOffscreenDocument returns to job j in this step, whose handler goes
\* on to post the job and await its result.
EnsureReturns(j) == pc[j] # "awaitResult" /\ pc'[j] = "awaitResult"

\* C25: ensureOffscreenDocument returns to a caller only once READY has been
\* handled, or when that caller's own 5 s readiness timer fires.
C25_Step ==
  \A j \in Jobs : EnsureReturns(j) => (offscreenReady' \/ ReadyTimerFires(j))

C25_ReadinessBarrier == [][C25_Step]_vars

\* The port listener handles a RESULT message in this step.
ResultHandled == Delivered("RESULT") /\ fromWorker' = Tail(fromWorker)

\* C26: when a RESULT message is handled while a job is pending, the pending
\* caller is failed with the message's error string if it has one and is
\* otherwise resolved with the message's result, and the slot is then empty.
C26_Step ==
  (ResultHandled /\ pendingTranscode # Null) =>
    LET p == pendingTranscode
        message == Head(fromWorker)
    IN /\ pendingTranscode' = Null
       /\ pc'[p] = "done"
       /\ IF message.error # ""
          THEN response'[p].type = "error" /\ response'[p].error = message.error
          ELSE response'[p].type = "result" /\ response'[p].result = message.result

C26_InlineResultDelivery == [][C26_Step]_vars

\* One pending caller was failed by a RESULT carrying an error, another was
\* resolved by a RESULT carrying a result, and the slot is empty.
C26_Witness ==
  /\ response[1].type = "error" /\ response[1].error = "engine failure"
  /\ response[2].type = "result" /\ response[2].result = EngineResult(2, MAX_MESSAGE_SIZE)
  /\ pendingTranscode = Null

\* The port listener handles a RESULT_CHUNKED_END message in this step.
ChunkedEndHandled == Delivered("RESULT_CHUNKED_END") /\ fromWorker' = Tail(fromWorker)

\* What job p's handler did with the value its promise was resolved with
\* shows that value to be sent: returned as it is, or stored for pulling.
ResolvedWith(p, sent) ==
  IF response'[p].type = "result" THEN response'[p].result = sent
  ELSE /\ response'[p].type = "chunked"
       /\ LET stored == resultStorage'[response'[p].resultId]
          IN IF sent.multiple
             THEN stored.isMultipleVideos /\ JSONparse(stored.json) = sent.videos
             ELSE /\ ~stored.isMultipleVideos
                  /\ stored.base64 = sent.base64 /\ stored.mimeType = sent.mimeType

\* C27: when RESULT_CHUNKED_END is handled after the start and all the
\* chunks of its sequence, with a job pending, the pending caller is resolved
\* with the result the worker passed to sendResult, and the pending slot and
\* the staging buffer are empty after the step.
C27_Step ==
  (/\ ChunkedEndHandled
   /\ pendingTranscode # Null
   /\ chunkedResult # NoEntry
   /\ chunkedResult.received = chunkedResult.totalChunks) =>
    /\ pendingTranscode' = Null
    /\ chunkedResult' = NoEntry
    /\ pc'[pendingTranscode] = "done"
    /\ ResolvedWith(pendingTranscode, Head(fromWorker).sent)

C27_ChunkedResultDelivery == [][C27_Step]_vars

\* The caller received, through a chunked sequence, a result of several
\* videos larger than one message; slot and staging buffer are empty.
C27_Witness ==
  /\ response[1].type = "result" /\ response[1].result.multiple
  /\ TotalSize(response[1].result) > MAX_MESSAGE_SIZE
  /\ response[1].result = EngineVideos(1, <<1, MAX_MESSAGE_SIZE>>)
  /\ pendingTranscode = Null /\ chunkedResult = NoEntry

\* The port listener handles a PROGRESS message in this step.
ProgressHandled == Delivered("PROGRESS") /\ fromWorker' = Tail(fromWorker)

\* C28: a PROGRESS message is relayed to the tab of its job whether or not a
\* job is pending, and handling it changes neither the pending slot, nor the
\* result staging buffer, nor the staging map, nor the stored-result map.
C28_Step ==
  ProgressHandled =>
    /\ Len(tabMessages') = Len(tabMessages) + 1
    /\ tabMessages'[Len(tabMessages')].type = "TRANSCODE_PROGRESS"
    /\ tabMessages'[Len(tabMessages')].tabId = TabOf(Head(fromWorker).job)
    /\ pendingTranscode' = pendingTranscode
    /\ chunkedResult' = chunkedResult
    /\ chunkStorage' = chunkStorage
    /\ resultStorage' = resultStorage

C28_ProgressDecoupled == [][C28_Step]_vars

\* Progress of job 1 was relayed with the slot empty, after job 1's caller
\* was failed by its deadline, while the staging map and the stored-result
\* map hold entries.
C28_Witness ==
  /\ IsTimeout(response[1])
  /\ \E i \in 1..Len(tabMessages) :
       tabMessages[i].of = 1 /\ tabMessages[i].pending = Null
  /\ \E t \in TransferIds : chunkStorage[t] # NoEntry

\* An EXTRACT_ZIP_PROCESS request is received in this step.
ProcessSent == \E j \in Jobs : ProcessHandled(j)

\* An EXTRACT_ZIP_PROCESS request was received before.
ProcessSentBefore == \E j \in Jobs : kind[j] = "EXTRACT_ZIP_PROCESS"

\* C29: the client sends the chunks of its transfer in index order, each
\* after the ones before it were acknowledged without error; it sends the
\* process request after all totalChunks chunks were acknowledged, once; and
\* after a chunk response with an error it sends neither.
C29_Step ==
  /\ ChunkHandled =>
       /\ LastChunk.chunkIndex = Len(arrived)
       /\ LastChunk.chunkIndex < ClientTotalChunks
       /\ ~uploadFailed /\ ~ProcessSentBefore
  /\ ProcessSent =>
       /\ Len(arrived) = ClientTotalChunks
       /\ ~uploadFailed /\ ~ProcessSentBefore
  /\ uploadFailed => ~ChunkHandled /\ ~ProcessSent

C29_ClientUploadOrdering == [][C29_Step]_vars

\* The transfer was uploaded chunk by chunk and processed.
C29_Witness ==
  /\ Len(arrived) = ClientTotalChunks /\ ClientTotalChunks >= 2
  /\ \A i \in 1..Len(arrived) : arrived[i].chunkIndex = i - 1
  /\ kind[1] = "EXTRACT_ZIP_PROCESS" /\ pc[1] = "done"
  /\ ~uploadFailed

\* The first n code units of text (all of it when it is shorter).
Prefix(text, n) == SubSeq(text, 1, Min(n, Len(text)))

\* C30: after a chunked descriptor the client's pulls run over the indices
\* 0..totalChunks-1 in order and each is answered with a chunk; isLast is
\* set on the pull of index totalChunks-1 and on no earlier one; and the
\* chunks joined are the stored string, the base64 text of a single-video
\* result and the serialized JSON of a multi-video one.
C30_Step ==
  PullHandled =>
    LET d == response[1]
        stored == resultStorage[d.resultId]
        i == Len(pulled)
    IN /\ d.type = "chunked"
       /\ LastPull.resultId = d.resultId
       /\ LastPull.chunkIndex = i
       /\ i < d.totalChunks
       /\ stored # NoEntry
       /\ LastPull.response.type = "chunk"
       /\ LastPull.response.isLast <=> (i = d.totalChunks - 1)
       /\ stored.isMultipleVideos = d.isMultipleVideos
       /\ \E result \in PulledResults(1) :
            /\ result.multiple = d.isMultipleVideos
            /\ StoredData(stored) = SentText(result)
       /\ ClientCombined' = Prefix(StoredData(stored), (i + 1) * MAX_MESSAGE_SIZE)
       /\ i = d.totalChunks - 1 => ClientCombined' = StoredData(stored)

C30_ClientResultPull == [][C30_Step]_vars

\* The client pulled a single-video result in several chunks, the last one
\* a full chunk.
C30_Witness ==
  /\ response[1].type = "chunked" /\ ~response[1].isMultipleVideos
  /\ Len(pulled) = response[1].totalChunks /\ Len(pulled) >= 2
  /\ pulled[Len(pulled)].response.isLast
  /\ Len(pulled[Len(pulled)].response.chunk) = MAX_MESSAGE_SIZE
  /\ Len(ClientCombined) = response[1].totalLength

\* Math.ceil(data.length / MAX_CHUNK_SIZE) of a stored result.
StoredTotalChunks(stored) == CeilDiv(Len(StoredData(stored)), MAX_MESSAGE_SIZE)

\* C31: a GET_RESULT_CHUNK request whose index is not totalChunks-1 (an
\* earlier index, or one at or beyond totalChunks) leaves the stored result
\* in the result map.
C31_Step ==
  PullHandled =>
    LET stored == resultStorage[LastPull.resultId]
    IN (stored # NoEntry /\ LastPull.chunkIndex # StoredTotalChunks(stored) - 1)
         => resultStorage'[LastPull.resultId] = stored

C31_OnlyFinalPullRemoves == [][C31_Step]_vars

\* The RESULT_CHUNKED_END handler resolves the pending job in this step.
ChunkedEndResolves ==
  ChunkedEndHandled /\ pendingTranscode # Null /\ pendingTranscode' = Null

\* C32: when the dispatcher handles RESULT_CHUNKED_END and resolves the
\* pending job, the staging buffer has received exactly the declared
\* totalChunks chunks, every index 0..totalChunks-1 is filled, and the chunks
\* are those of the sequence the END closes, which the most recent
\* RESULT_CHUNKED_START opened.
C32_Step ==
  ChunkedEndResolves =>
    LET text == SentText(Head(fromWorker).sent)
    IN /\ chunkedResult # NoEntry
       /\ chunkedResult.received = chunkedResult.totalChunks
       /\ Len(chunkedResult.chunks) = chunkedResult.totalChunks
       /\ \A i \in 1..Len(chunkedResult.chunks) : chunkedResult.chunks[i] # Hole
       /\ chunkedResult.totalChunks = CeilDiv(Len(text), MAX_MESSAGE_SIZE)
       /\ chunkedResult.chunks = ChunksOf(text, MAX_MESSAGE_SIZE)

C32_ResolvedOnlyWhenComplete == [][C32_Step]_vars

\* A chunked result resolved the second job, after the staging of the first
\* job's sequence, whose caller had timed out, was left behind.
C32_Witness ==
  /\ response[1].type = "error" /\ response[2].type = "result"
  /\ TotalSize(response[2].result) > MAX_MESSAGE_SIZE
  /\ response[2].result.job = 2
  /\ chunkedResult = NoEntry /\ pendingTranscode = Null

\* C33: after the dispatcher has processed a RESULT_CHUNKED_END message the
\* staging buffer is empty, also when no job was pending at that moment.
C33_Step == ChunkedEndHandled => chunkedResult' = NoEntry

C33_StagingDoesNotOutlive == [][C33_Step]_vars

\* The worker instance that exists now holds the connection; its script
\* posts READY in the run that connects.
CurrentWorkerAnnounced ==
  docExists /\ offscreenPort # Null /\ offscreenPort = workerGen

\* C34: whenever offscreenReady is true while a worker instance exists, that
\* instance is the one behind the held connection and has sent READY: after
\* a disconnection and re-creation the flag is not true before the new
\* instance has announced readiness.
C34_ReadinessOfCurrentWorker ==
  (offscreenReady /\ docExists) => CurrentWorkerAnnounced

\* Job j's createDocument call failed in this step.
CreationFails(j) == pc[j] = "creating" /\ pc'[j] = "done"

\* C35: when the creation started by ensureOffscreenDocument fails, the
\* in-flight creation marker is cleared, so that a later call made while no
\* document exists starts a fresh creation instead of awaiting the failed
\* one.
C35_Step ==
  /\ \A j \in Jobs : CreationFails(j) => creatingOffscreen' = "null"
  /\ \A j \in Jobs :
       (ContextsAnswered(j) /\ ~docExists /\ Creating = {}) => CreationStarts(j)

C35_CreationFailureRecoverable == [][C35_Step]_vars

\* The EXTRACT_ZIP_PROCESS request of job j fails with 'Incomplete transfer'
\* in this step.
IncompleteRefused(j) ==
  ProcessHandled(j) /\ response'[j] = ErrorResponse("Incomplete transfer", Null)

\* C36: when EXTRACT_ZIP_PROCESS fails with 'Incomplete transfer', the
\* transfer's staging entry (slots, received count, declared total) and the
\* pending slot are unchanged and nothing is posted to the worker; the
\* missing chunks can then be uploaded and a later process request for the
\* same identifier succeeds (the witness).
C36_Step ==
  \A j \in Jobs :
    IncompleteRefused(j) =>
      /\ chunkStorage[transferId'[j]] # NoEntry
      /\ chunkStorage' = chunkStorage
      /\ pendingTranscode' = pendingTranscode
      /\ toWorker' = toWorker
      /\ jobTimers' = jobTimers
      /\ pc'[j] = "done"

C36_RefusalKeepsTransfer == [][C36_Step]_vars

\* Job 1's process request was refused as incomplete with one of two chunks
\* staged; the other chunk followed, and job 2's process request for the same
\* transfer passed the gate with the two chunks joined.
C36_Witness ==
  /\ response[1] = ErrorResponse("Incomplete transfer", Null)
  /\ kind[2] = "EXTRACT_ZIP_PROCESS" /\ transferId[2] = transferId[1]
  /\ response[2] = NoResponse /\ pc[2] = "awaitResult" /\ pendingTranscode = 2
  /\ toWorker # <<>>
  /\ Len(arrived) = 2 /\ arrived[1].chunkIndex # arrived[2].chunkIndex
  /\ Len(zipBase64[2]) > MAX_MESSAGE_SIZE
  /\ chunkStorage[transferId[2]] = NoEntry

\* The number of messages of job j in queue that satisfy Is.
RECURSIVE Count(_, _, _)
Count(queue, j, types) ==
  IF queue = <<>> THEN 0
  ELSE (IF Head(queue).job = j /\ Head(queue).type \in types THEN 1 ELSE 0)
         + Count(Tail(queue), j, types)

\* The worker's listener has run on the whole job-start of job j: the single
\* message, or the START/CHUNK/END sequence up to its END.
Received(j) ==
  /\ pc[j] = "awaitResult"
  /\ \A i \in 1..Len(toWorker) : toWorker[i].job # j

\* The terminal outcomes the worker has posted for job j.
Outcomes(j) == Count(fromWorker, j, {"RESULT", "RESULT_CHUNKED_START"})

\* The message at position i opens a sequence that is posted whole and
\* unbroken: its totalChunks chunks of the same job in index order, then its
\* END.
Contiguous(i) ==
  LET n == fromWorker[i].totalChunks
      j == fromWorker[i].job
  IN /\ i + n + 1 <= Len(fromWorker)
     /\ \A k \in 1..n :
          /\ fromWorker[i + k].type = "RESULT_CHUNK"
          /\ fromWorker[i + k].job = j
          /\ fromWorker[i + k].chunkIndex = k - 1
     /\ fromWorker[i + n + 1].type = "RESULT_CHUNKED_END"
     /\ fromWorker[i + n + 1].job = j

C37_Posted ==
  /\ \A j \in Jobs :
       /\ Outcomes(j) <= 1
       /\ Outcomes(j) = 1 <=> (Received(j) /\ j \notin workerJobs)
       /\ j \in workerJobs => Received(j)
       /\ Count(fromWorker, j, {"RESULT_CHUNKED_END"})
            = Count(fromWorker, j, {"RESULT_CHUNKED_START"})
       /\ Count(fromWorker, j, {"RESULT_CHUNK"}) > 0
            => Count(fromWorker, j, {"RESULT_CHUNKED_START"}) = 1
  /\ \A i \in 1..Len(fromWorker) :
       fromWorker[i].type = "RESULT_CHUNKED_START" => Contiguous(i)

====
